---- MODULE Spec2Model ----
(***************************************************************************)
(* Model of the freshcook-app ingredient extraction performed by the       *)
(* analyze-image edge function (src/unnamed/part_003).                     *)
(*                                                                         *)
(* JavaScript strings are TLA+ strings; a character is a string of length  *)
(* one.  Label scores are held in hundredths (0.5 is 50), so that the      *)
(* comparison label.score > 0.5 is an integer comparison.  A JavaScript    *)
(* value of another type is a record of its type and what it holds.        *)
(***************************************************************************)
EXTENDS Integers, Sequences, FiniteSets, TLC

VARIABLES
    pc,                   \* position of the invocation: "idle", "parsed", "done",
                          \* "failed", "replied", "settled"
    response,             \* visionData.responses[0]
    foodLabels,           \* normalized labels that passed the filter
    extractedIngredients, \* terms returned by extractIngredientsFromText
    ingredients,          \* the accumulated candidate list
    uniqueIngredients,    \* the list put in the success response
    reply,                \* the Response the edge function returns
    client,               \* outcome of AIService.analyzeImage in the browser
    raw,                  \* argument of a direct normalizeIngredient call
    once,                 \* normalizeIngredient(raw)
    twice,                \* normalizeIngredient(once)
    npc,                  \* position of the direct calls: "start", "once", "twice"
    calls,                \* concurrent invocations of the function, one record each
    returned,             \* history: <<inputs, list>> of every invocation that returned
    localStorage,         \* the browser's localStorage, in key(i) order
    window,               \* Math.floor(Date.now() / 60000)
    admitted,             \* history: calls answered true in this window, per key
    allowed,              \* the last checkRateLimit call and its result
    fn,                   \* the edge function that serves the request
    hpc,                  \* position of that function: "idle", "fetching", "replied"
    request,              \* the HTTP request
    env,                  \* Deno.env of the function
    upstream,             \* what the function's fetch ended with
    sent,                 \* the Response the function returned
    fetched,              \* the function has sent its upstream request
    labelArg,             \* argument of a direct isFoodRelated call
    related,              \* isFoodRelated(labelArg)
    shouted,              \* isFoodRelated(labelArg.toUpperCase())
    cpc,                  \* position of these calls: "start", "classified", "both"
    textArg,              \* argument of a direct extractIngredientsFromText call
    found,                \* extractIngredientsFromText(textArg)
    mpc,                  \* position of this call: "start", "mined"
    isSignUp,             \* AuthModal: the form is in sign-up mode
    password,             \* AuthModal: the password field
    passwordStrength,     \* AuthModal: the stored result of validatePassword
    loading,              \* AuthModal: a submit is waiting for signUp or signIn
    submitted,            \* history: the last handleSubmit call and where it ended
    appIngredients,       \* App: the ingredients state
    inputError,           \* IngredientInput: the message under the input field
    clock,                \* the last value Date.now() returned to addIngredient
    isAnalyzing,          \* IngredientInput: an image upload awaits its analysis
    analysisError,        \* IngredientInput: the message of the upload box
    analysis,             \* the render that the pending handleImageUpload closed over
    batches,              \* the uploads that reached AIService.analyzeImage
    isGenerating,         \* App: generateRecipes awaits a request
    generation,           \* the request generateRecipes awaits, or "idle"
    appRecipes,           \* App: the recipes state
    showAuthModal,        \* App: the sign-in modal is open
    favoriteRecipes,      \* App: the favoriteRecipes state, a recipe given by its id
    toggling,             \* the toggleFavorite calls that wait for their request
    toggled,              \* the toggleFavorite calls that reached their request
    favorite_recipes,     \* the ids in the user's favorite_recipes table
    lastOperation         \* history: the last fulfilled request per recipe

vars == <<pc, response, foodLabels, extractedIngredients, ingredients,
          uniqueIngredients, reply, client, raw, once, twice, npc, calls,
          returned, localStorage, window, admitted, allowed, fn, hpc,
          request, env, upstream, sent, fetched, labelArg, related, shouted,
          cpc, textArg, found, mpc, isSignUp, password, passwordStrength,
          loading, submitted, appIngredients, inputError, clock, isAnalyzing,
          analysisError, analysis, batches, isGenerating, generation,
          appRecipes, showAuthModal, favoriteRecipes, toggling, toggled,
          favorite_recipes, lastOperation>>

\* the variables that the handler does not touch
outsidePipeline ==
    <<raw, once, twice, npc,
      calls, returned,
      localStorage, window, admitted, allowed,
      fn, hpc, request, env, upstream, sent, fetched,
      labelArg, related, shouted, cpc,
      textArg, found, mpc,
      isSignUp, password, passwordStrength, loading, submitted,
      appIngredients, inputError, clock, isAnalyzing, analysisError,
      analysis, batches, isGenerating, generation, appRecipes,
      showAuthModal,
      favoriteRecipes, toggling, toggled, favorite_recipes, lastOperation>>

\* the variables that the direct normalizeIngredient calls do not touch
outsideNormalize ==
    <<pc, response, foodLabels, extractedIngredients, ingredients,
      uniqueIngredients, reply, client,
      calls, returned,
      localStorage, window, admitted, allowed,
      fn, hpc, request, env, upstream, sent, fetched,
      labelArg, related, shouted, cpc,
      textArg, found, mpc,
      isSignUp, password, passwordStrength, loading, submitted,
      appIngredients, inputError, clock, isAnalyzing, analysisError,
      analysis, batches, isGenerating, generation, appRecipes,
      showAuthModal,
      favoriteRecipes, toggling, toggled, favorite_recipes, lastOperation>>

\* the variables that the concurrent invocations do not touch
outsideReentrant ==
    <<pc, response, foodLabels, extractedIngredients, ingredients,
      uniqueIngredients, reply, client,
      raw, once, twice, npc,
      localStorage, window, admitted, allowed,
      fn, hpc, request, env, upstream, sent, fetched,
      labelArg, related, shouted, cpc,
      textArg, found, mpc,
      isSignUp, password, passwordStrength, loading, submitted,
      appIngredients, inputError, clock, isAnalyzing, analysisError,
      analysis, batches, isGenerating, generation, appRecipes,
      showAuthModal,
      favoriteRecipes, toggling, toggled, favorite_recipes, lastOperation>>

\* the variables that checkRateLimit does not touch
outsideRate ==
    <<pc, response, foodLabels, extractedIngredients, ingredients,
      uniqueIngredients, reply, client,
      raw, once, twice, npc,
      calls, returned,
      fn, hpc, request, env, upstream, sent, fetched,
      labelArg, related, shouted, cpc,
      textArg, found, mpc,
      isSignUp, password, passwordStrength, loading, submitted,
      appIngredients, inputError, clock, isAnalyzing, analysisError,
      analysis, batches, isGenerating, generation, appRecipes,
      showAuthModal,
      favoriteRecipes, toggling, toggled, favorite_recipes, lastOperation>>

\* the variables that the HTTP handlers do not touch
outsideHttp ==
    <<pc, response, foodLabels, extractedIngredients, ingredients,
      uniqueIngredients, reply, client,
      raw, once, twice, npc,
      calls, returned,
      localStorage, window, admitted, allowed,
      labelArg, related, shouted, cpc,
      textArg, found, mpc,
      isSignUp, password, passwordStrength, loading, submitted,
      appIngredients, inputError, clock, isAnalyzing, analysisError,
      analysis, batches, isGenerating, generation, appRecipes,
      showAuthModal,
      favoriteRecipes, toggling, toggled, favorite_recipes, lastOperation>>

\* the variables that the direct isFoodRelated calls do not touch
outsideClassify ==
    <<pc, response, foodLabels, extractedIngredients, ingredients,
      uniqueIngredients, reply, client,
      raw, once, twice, npc,
      calls, returned,
      localStorage, window, admitted, allowed,
      fn, hpc, request, env, upstream, sent, fetched,
      textArg, found, mpc,
      isSignUp, password, passwordStrength, loading, submitted,
      appIngredients, inputError, clock, isAnalyzing, analysisError,
      analysis, batches, isGenerating, generation, appRecipes,
      showAuthModal,
      favoriteRecipes, toggling, toggled, favorite_recipes, lastOperation>>

\* the variables that the direct extractIngredientsFromText calls do not touch
outsideMine ==
    <<pc, response, foodLabels, extractedIngredients, ingredients,
      uniqueIngredients, reply, client,
      raw, once, twice, npc,
      calls, returned,
      localStorage, window, admitted, allowed,
      fn, hpc, request, env, upstream, sent, fetched,
      labelArg, related, shouted, cpc,
      isSignUp, password, passwordStrength, loading, submitted,
      appIngredients, inputError, clock, isAnalyzing, analysisError,
      analysis, batches, isGenerating, generation, appRecipes,
      showAuthModal,
      favoriteRecipes, toggling, toggled, favorite_recipes, lastOperation>>

\* the variables that the AuthModal and checkRateLimit do not touch
outsideAuth ==
    <<pc, response, foodLabels, extractedIngredients, ingredients,
      uniqueIngredients, reply, client,
      raw, once, twice, npc,
      calls, returned,
      fn, hpc, request, env, upstream, sent, fetched,
      labelArg, related, shouted, cpc,
      textArg, found, mpc,
      appIngredients, inputError, clock, isAnalyzing, analysisError,
      analysis, batches, isGenerating, generation, appRecipes,
      showAuthModal,
      favoriteRecipes, toggling, toggled, favorite_recipes, lastOperation>>

\* the variables that the ingredient list handlers and checkRateLimit do not touch
outsideApp ==
    <<pc, response, foodLabels, extractedIngredients, ingredients,
      uniqueIngredients, reply, client,
      raw, once, twice, npc,
      calls, returned,
      fn, hpc, request, env, upstream, sent, fetched,
      labelArg, related, shouted, cpc,
      textArg, found, mpc,
      isSignUp, password, passwordStrength, loading, submitted,
      favoriteRecipes, toggling, toggled, favorite_recipes, lastOperation>>

\* the variables that toggleFavorite does not touch
outsideFavorites ==
    <<pc, response, foodLabels, extractedIngredients, ingredients,
      uniqueIngredients, reply, client,
      raw, once, twice, npc,
      calls, returned,
      localStorage, window, admitted, allowed,
      fn, hpc, request, env, upstream, sent, fetched,
      labelArg, related, shouted, cpc,
      textArg, found, mpc,
      isSignUp, password, passwordStrength, loading, submitted,
      appIngredients, inputError, clock, isAnalyzing, analysisError,
      analysis, batches, isGenerating, generation, appRecipes>>

(***************************************************************************)
(* Bounds of the model.                                                    *)
(***************************************************************************)
\* longest list of pool labels appended to the label annotations
MaxLabels == 2

\* number of invocations of the function that run concurrently
MaxCalls == 2

\* last one-minute window the clock reaches
MaxWindow == 1

\* longest array of recipes in a reply of the language model
MaxRecipes == 2

\* longest label that isFoodRelated is called on
MaxLabelLen == 3

\* most words in a text that extractIngredientsFromText is called on
MaxWords == 2

\* longest string handed directly to normalizeIngredient
MaxRawLen == 3

(***************************************************************************)
(* Program constants.                                                      *)
(***************************************************************************)
\* label.score > 0.5, in hundredths
ScoreThreshold == 50

\* ingredient.length > 2
MinLength == 2

\* .slice(0, 15)
MaxIngredients == 15

(***************************************************************************)
(* Characters and the JavaScript string primitives used by the code.       *)
(***************************************************************************)
CharAt(s, i) == SubSeq(s, i, i)

UpperAlpha == "ABCDEFGHIJKLMNOPQRSTUVWXYZÉ"

LowerAlpha == "abcdefghijklmnopqrstuvwxyzé"

\* String.prototype.toLowerCase on one character
LowerMap == [c \in {CharAt(UpperAlpha, i) : i \in 1..Len(UpperAlpha)} |->
                CharAt(LowerAlpha, CHOOSE i \in 1..Len(UpperAlpha) : CharAt(UpperAlpha, i) = c)]

\* String.prototype.toUpperCase on one character
UpperMap == [c \in {CharAt(LowerAlpha, i) : i \in 1..Len(LowerAlpha)} |->
                CharAt(UpperAlpha, CHOOSE i \in 1..Len(LowerAlpha) : CharAt(LowerAlpha, i) = c)]

LowerChar(c) == IF c \in DOMAIN LowerMap THEN LowerMap[c] ELSE c

UpperChar(c) == IF c \in DOMAIN UpperMap THEN UpperMap[c] ELSE c

\* the regular expression class [a-z]
AZ == {CharAt(LowerAlpha, i) : i \in 1..26}

\* the regular expression class \s, which is also what trim() removes
WhiteSpace == {" ", "\t", "\n", "\r", "\f"}

\* the regular expression class \w
WordChars == AZ \cup {CharAt(UpperAlpha, i) : i \in 1..26}
                \cup {"0", "1", "2", "3", "4", "5", "6", "7", "8", "9", "_"}

\* String.prototype.toLowerCase, character by character
RECURSIVE toLowerCase(_)
toLowerCase(s) ==
    IF Len(s) <= 1 THEN LowerChar(s)
    ELSE LET half == Len(s) \div 2
         IN  toLowerCase(SubSeq(s, 1, half)) \o toLowerCase(SubSeq(s, half + 1, Len(s)))

\* String.prototype.includes
Includes(s, k) ==
    \E i \in 0..(Len(s) - Len(k)) : SubSeq(s, i + 1, i + Len(k)) = k

\* .replace(/[^a-z\s]/g, '')
RECURSIVE StripNonAlpha(_)
StripNonAlpha(s) ==
    IF Len(s) = 0 THEN ""
    ELSE IF Len(s) = 1 THEN (IF s \in AZ \cup WhiteSpace THEN s ELSE "")
    ELSE LET half == Len(s) \div 2
         IN  StripNonAlpha(SubSeq(s, 1, half)) \o StripNonAlpha(SubSeq(s, half + 1, Len(s)))

\* String.prototype.trim
RECURSIVE TrimStart(_)
TrimStart(s) ==
    IF s # "" /\ Head(s) \in WhiteSpace THEN TrimStart(Tail(s)) ELSE s

RECURSIVE TrimEnd(_)
TrimEnd(s) ==
    IF s # "" /\ CharAt(s, Len(s)) \in WhiteSpace
    THEN TrimEnd(SubSeq(s, 1, Len(s) - 1))
    ELSE s

Trim(s) == TrimEnd(TrimStart(s))

\* .split(' ')
RECURSIVE Split(_)
Split(s) ==
    IF ~Includes(s, " ") THEN <<s>>
    ELSE LET i == CHOOSE j \in 1..Len(s) :
                     /\ CharAt(s, j) = " "
                     /\ \A k \in 1..(j - 1) : CharAt(s, k) # " "
         IN  <<SubSeq(s, 1, i - 1)>> \o Split(SubSeq(s, i + 1, Len(s)))

\* word => word.charAt(0).toUpperCase() + word.slice(1)
Capitalize(word) ==
    IF word = "" THEN "" ELSE UpperChar(Head(word)) \o Tail(word)

\* .join(' ')
RECURSIVE Join(_)
Join(words) ==
    IF Len(words) = 0 THEN ""
    ELSE IF Len(words) = 1 THEN words[1]
    ELSE words[1] \o " " \o Join(Tail(words))

\* .map(word => word.charAt(0).toUpperCase() + word.slice(1))
CapitalizeAll(words) == [i \in 1..Len(words) |-> Capitalize(words[i])]

\* normalizeIngredient with the .toLowerCase() step left out
normalizeWithoutLowerCase(ingredient) ==
    Join(CapitalizeAll(Split(Trim(StripNonAlpha(ingredient)))))

normalizeIngredient(ingredient) ==
    Join(CapitalizeAll(Split(Trim(StripNonAlpha(toLowerCase(ingredient))))))

\* .map(normalizeIngredient)
NormalizeAll(list) == [i \in 1..Len(list) |-> normalizeIngredient(list[i])]

(***************************************************************************)
(* The two lexicons.                                                       *)
(***************************************************************************)
foodKeywords == <<
    "food", "ingredient", "vegetable", "fruit", "meat", "dairy", "grain",
    "spice", "herb", "sauce", "oil", "vinegar", "cheese", "milk", "egg",
    "bread", "pasta", "rice", "bean", "nut", "seed", "fish", "chicken",
    "beef", "pork", "lamb", "turkey", "onion", "garlic", "tomato", "potato",
    "carrot", "pepper", "mushroom", "lettuce", "spinach", "broccoli",
    "apple", "banana", "orange", "lemon", "lime", "strawberry", "blueberry",
    "cucumber", "zucchini", "corn", "peas", "cabbage", "cauliflower",
    "celery", "avocado", "mango", "pineapple", "grapes", "berries" >>

commonIngredients == <<
    "flour", "sugar", "salt", "pepper", "oil", "butter", "milk", "eggs",
    "onion", "garlic", "tomato", "potato", "carrot", "celery", "parsley",
    "basil", "oregano", "thyme", "rosemary", "chicken", "beef", "pork",
    "fish", "cheese", "cream", "yogurt", "lemon", "lime", "vinegar",
    "soy sauce", "olive oil", "coconut oil", "honey", "vanilla", "cinnamon",
    "ginger", "paprika", "cumin", "turmeric", "chili", "mushrooms",
    "spinach", "broccoli", "cauliflower", "zucchini", "eggplant", "peppers",
    "cucumber", "lettuce", "cabbage", "kale", "arugula", "cilantro",
    "mint", "dill", "sage", "bay leaves", "nutmeg", "cardamom", "cloves" >>

(***************************************************************************)
(* isFoodRelated: the bidirectional substring test.                        *)
(***************************************************************************)
\* isFoodRelated with the keyword.includes(labelLower) alternative left out
isFoodRelatedOneWay(label) ==
    LET labelLower == toLowerCase(label)
    IN  \E n \in 1..Len(foodKeywords) : Includes(labelLower, foodKeywords[n])

\* isFoodRelated on the trimmed label
isFoodRelatedTrimmed(label) ==
    LET labelLower == toLowerCase(Trim(label))
    IN  \E n \in 1..Len(foodKeywords) :
            \/ Includes(labelLower, foodKeywords[n])
            \/ Includes(foodKeywords[n], labelLower)

isFoodRelated(label) ==
    LET labelLower == toLowerCase(label)
    IN  \E n \in 1..Len(foodKeywords) :
            \/ Includes(labelLower, foodKeywords[n])
            \/ Includes(foodKeywords[n], labelLower)

(***************************************************************************)
(* extractIngredientsFromText: new RegExp(`\\b${ingredient}s?\\b`, 'i').   *)
(***************************************************************************)
\* the character at position i is a \w character (false outside the text)
IsWordAt(text, i) ==
    i >= 1 /\ i <= Len(text) /\ CharAt(text, i) \in WordChars

\* \b between positions i - 1 and i
BoundaryBefore(text, i) == IsWordAt(text, i - 1) # IsWordAt(text, i)

\* the literal characters of pat match at position i, ignoring case
MatchesAt(text, i, pat) ==
    /\ i + Len(pat) - 1 <= Len(text)
    /\ \A k \in 1..Len(pat) : LowerChar(CharAt(text, i + k - 1)) = LowerChar(CharAt(pat, k))

\* the pattern without its closing \b
RegexTestOpenEnd(ingredient, text) ==
    \E i \in 1..Len(text) : BoundaryBefore(text, i) /\ MatchesAt(text, i, ingredient)

\* regex.test(text)
RegexTest(ingredient, text) ==
    \E i \in 1..Len(text) :
        /\ BoundaryBefore(text, i)
        /\ MatchesAt(text, i, ingredient)
        /\ LET e == i + Len(ingredient)
           IN  \/ BoundaryBefore(text, e)
               \/ /\ MatchesAt(text, e, "s")
                  /\ BoundaryBefore(text, e + 1)

\* the pattern matches at position i of the text
RegexMatchAt(ingredient, text, i) ==
    /\ BoundaryBefore(text, i)
    /\ MatchesAt(text, i, ingredient)
    /\ \/ BoundaryBefore(text, i + Len(ingredient))
       \/ /\ MatchesAt(text, i + Len(ingredient), "s")
          /\ BoundaryBefore(text, i + Len(ingredient) + 1)

RECURSIVE MatchesFrom(_, _)
\* the terms matched at positions i, i + 1, ... of the text, one entry a match
MatchesFrom(text, i) ==
    IF i > Len(text) THEN <<>>
    ELSE SelectSeq(commonIngredients, LAMBDA ingredient : RegexMatchAt(ingredient, text, i))
             \o MatchesFrom(text, i + 1)

\* the miner walking through the text instead of through the dictionary
extractInTextOrder(text) == MatchesFrom(text, 1)

extractIngredientsFromText(text) ==
    SelectSeq(commonIngredients, LAMBDA ingredient : RegexTest(ingredient, text))

(***************************************************************************)
(* The aggregation steps of the handler.                                   *)
(***************************************************************************)
InSeq(x, s) == \E i \in 1..Len(s) : s[i] = x

\* the spread without the Set: every element kept
KeepAll(list, seen) == seen \o list

\* [...new Set(list)]: insertion order, first occurrence kept
RECURSIVE SetOrder(_, _)
SetOrder(list, seen) ==
    IF Len(list) = 0 THEN seen
    ELSE SetOrder(Tail(list),
                  IF InSeq(Head(list), seen) THEN seen ELSE Append(seen, Head(list)))

\* the filter with ingredient.length > 0
NonEmptyOnly(list) == SelectSeq(list, LAMBDA ingredient : Len(ingredient) > 0)

\* .filter(ingredient => ingredient.length > 2)
LongEnough(list) == SelectSeq(list, LAMBDA ingredient : Len(ingredient) > MinLength)

\* the slice with an end index one too large
SliceOneMore(list) ==
    SubSeq(list, 1, IF Len(list) < MaxIngredients + 1 THEN Len(list) ELSE MaxIngredients + 1)

\* .slice(0, 15)
Slice(list) ==
    SubSeq(list, 1, IF Len(list) < MaxIngredients THEN Len(list) ELSE MaxIngredients)

\* the value of a decimal digit
DigitValue(ch) == CHOOSE d \in 0..9 : ToString(d) = ch

RECURSIVE parseInt(_)
\* parseInt of a string of decimal digits
parseInt(str) ==
    IF Len(str) = 1 THEN DigitValue(str)
    ELSE 10 * parseInt(SubSeq(str, 1, Len(str) - 1)) + DigitValue(SubSeq(str, Len(str), Len(str)))

\* ToNumber(label.score), as the comparison label.score > 0.5 takes it, in
\* hundredths: the set holding the number, or the empty set for NaN.  A
\* label holds a numeric score in score; a score of another JSON type is held
\* in rawScore as its JSON text (true, null, "0.9").  A string is read as a
\* decimal with at most two fraction digits.
ScoreNumber(label) ==
    IF "score" \in DOMAIN label THEN {label.score}
    ELSE IF "rawScore" \notin DOMAIN label THEN {}
    ELSE LET json == label.rawScore
             str == Trim(SubSeq(json, 2, Len(json) - 1))
             digits(d) == \A i \in 1..Len(d) : \E n \in 0..9 : ToString(n) = CharAt(d, i)
             dot == IF Includes(str, ".")
                    THEN CHOOSE i \in 1..Len(str) : CharAt(str, i) = "."
                    ELSE Len(str) + 1
             whole == SubSeq(str, 1, dot - 1)
             fraction == SubSeq(str, dot + 1, Len(str))
         IN  CASE json = "true" -> {100}
               [] json \in {"false", "null"} -> {0}
               [] CharAt(json, 1) = "\"" ->
                     IF str = "" THEN {0}
                     ELSE IF /\ digits(whole) /\ digits(fraction)
                             /\ Len(whole) + Len(fraction) > 0 /\ Len(fraction) <= 2
                     THEN {100 * (IF whole = "" THEN 0 ELSE parseInt(whole))
                           + (IF fraction = "" THEN 0
                              ELSE IF Len(fraction) = 1 THEN 10 * parseInt(fraction)
                              ELSE parseInt(fraction))}
                     ELSE {}
               [] OTHER -> {}

\* the label filter with label.score >= 0.5
LabelPassesAtCutoff(label) ==
    /\ \E number \in ScoreNumber(label) : number >= ScoreThreshold
    /\ isFoodRelated(label.description)

\* the label filter: label.score > 0.5 && isFoodRelated(label.description)
LabelPasses(label) ==
    /\ \E number \in ScoreNumber(label) : number > ScoreThreshold
    /\ isFoodRelated(label.description)

FoodLabelsOf(resp) ==
    IF "labelAnnotations" \in DOMAIN resp
    THEN LET passing == SelectSeq(resp.labelAnnotations, LabelPasses)
         IN  [i \in 1..Len(passing) |-> normalizeIngredient(passing[i].description)]
    ELSE <<>>

\* the mined terms, or nothing when there is no first text annotation
ExtractedOf(resp) ==
    IF "textAnnotations" \in DOMAIN resp /\ Len(resp.textAnnotations) > 0
    THEN extractIngredientsFromText(toLowerCase(resp.textAnnotations[1].description))
    ELSE <<>>

\* the chain with .slice(0, 15) applied before the length filter
UniqueSliceFirst(list) == LongEnough(Slice(SetOrder(list, <<>>)))

\* [...new Set(ingredients)].filter(...).slice(0, 15)
UniqueOf(list) == Slice(LongEnough(SetOrder(list, <<>>)))

\* the two pushes in the order text first, labels second
CandidatesTextFirst(labels, mined) == NormalizeAll(mined) \o labels

\* the second push without its map(normalizeIngredient)
CandidatesAsMined(labels, mined) == labels \o mined

\* ingredients.push(...foodLabels); ingredients.push(...extractedIngredients.map(normalizeIngredient))
Candidates(labels, mined) == labels \o NormalizeAll(mined)

\* the list the handler returns for a parsed image-service response
AnalysisOf(resp) == UniqueOf(Candidates(FoodLabelsOf(resp), ExtractedOf(resp)))

(***************************************************************************)
(* The image-service responses the handler is run on.                      *)
(***************************************************************************)
\* a JavaScript value: its type and what it holds (nothing, for null and
\* undefined)
Js(type, value) == [t |-> type, v |-> value]

Label(d, sc) == [description |-> d, score |-> sc]

\* labels drawn for the short lists: food and non-food descriptions, scores
\* on both sides of the cutoff, descriptions that normalize to the same
\* string, and descriptions whose normalized form is short or empty
LabelPool == {
    Label("Vegetable", 80), Label("Car", 95), Label("Garlic Clove", 90),
    Label("Garlic", 90), Label("Tomato", 50), Label("A", 90), Label("", 90) }

\* a response with many distinct food labels
ManyLabels == <<
    Label("Food", 90), Label("Ingredient", 90), Label("Fruit", 90),
    Label("Meat", 90), Label("Dairy", 90), Label("Grain", 90),
    Label("Spice", 90), Label("Herb", 90), Label("Sauce", 90),
    Label("Cheese", 90), Label("Bread", 90), Label("Pasta", 90),
    Label("Rice", 90), Label("Bean", 90) >>

RecipeText == "recipe calls for 2 eggs and fresh basil leaves"

ShoppingText == "I bought Onions and garlic"

SingularText == "1 egg, mushroom soup"

LongText == "flour sugar salt pepper oil butter milk eggs onion garlic tomato potato carrot celery parsley basil oregano"

InsideWordText == "eggplant peppercorn boiling"

RepeatedText == "Garlic, garlic; GARLIC\nolive oil"

OcrTexts == {RecipeText, ShoppingText, SingularText, LongText,
             InsideWordText, RepeatedText}

SeqsUpTo(S, n) == UNION {[1..m -> S] : m \in 0..n}

ShortLabelLists == SeqsUpTo(LabelPool, MaxLabels)

LongLabelLists == {ManyLabels \o tail : tail \in ShortLabelLists}

\* textAnnotations: an empty list, or a list whose first entry holds the text
TextAnnotations == {<<>>} \cup {<<[description |-> t]>> : t \in OcrTexts}

\* a response in which the image service found neither labels nor text: {}
EmptyResponse == [field \in {} |-> {}]

Responses ==
         {[labelAnnotations |-> l, textAnnotations |-> t] :
              l \in ShortLabelLists, t \in TextAnnotations}
    \cup {[labelAnnotations |-> l] : l \in ShortLabelLists \cup LongLabelLists}
    \cup {[labelAnnotations |-> l, textAnnotations |-> <<[description |-> LongText]>>] :
              l \in LongLabelLists}
    \cup {[textAnnotations |-> t] : t \in TextAnnotations}
    \cup {EmptyResponse}

\* a label annotation that carries no description
Undescribed(sc) == [score |-> sc]

\* responses that do not have the documented shape: a label without a
\* description, above and at the cutoff, and a first text annotation without
\* a description
MalformedResponses == {
    [labelAnnotations |-> <<Undescribed(90)>>],
    [labelAnnotations |-> <<Label("Vegetable", 80), Undescribed(90)>>,
     textAnnotations |-> <<[description |-> RecipeText]>>],
    [labelAnnotations |-> <<Undescribed(50), Label("Vegetable", 80)>>],
    [textAnnotations |-> <<[locale |-> "en"]>>],
    [labelAnnotations |-> <<Label("Vegetable", 80)>>,
     textAnnotations |-> <<[locale |-> "en"]>>] }

\* responses with a label whose score is missing or is not a JSON number,
\* with and without a description
UnscoredResponses ==
    {[labelAnnotations |-> <<label>>] : label \in
        {[description |-> "Tomato"], [mid |-> "/m/07j87"]}
        \cup {[description |-> "Tomato", rawScore |-> json] :
                 json \in {"\"high\"", "\"0.4\"", "\"0.9\"", "\"\"", "true", "null"}}
        \cup {[mid |-> "/m/07j87", rawScore |-> json] : json \in {"\"high\"", "true"}}}

\* the characters of the strings handed directly to normalizeIngredient
RawChars == {"a", "B", "É", " ", "\t", "\n", "1", "-"}

RECURSIVE Concat(_)
Concat(chars) ==
    IF Len(chars) = 0 THEN "" ELSE Head(chars) \o Concat(Tail(chars))

RawStrings == {Concat(chars) : chars \in SeqsUpTo(RawChars, MaxRawLen)}

(***************************************************************************)
(* The handler, from the parsed image-service response to the reply.       *)
(***************************************************************************)
NoResponse == [none |-> TRUE]

NoReply == [status |-> 0]

Pending == [kind |-> "pending"]

corsHeaders == {"Access-Control-Allow-Origin", "Access-Control-Allow-Headers",
                "Access-Control-Allow-Methods"}

\* { ...corsHeaders, 'Content-Type': 'application/json' }
JsonHeaders == corsHeaders \cup {"Content-Type"}

\* new Response(JSON.stringify(body), { status, headers: { ...corsHeaders,
\* 'Content-Type': 'application/json' } })
JsonResponse(status, body) ==
    [status |-> status, headers |-> JsonHeaders, body |-> body]

\* new Response(null, { headers: corsHeaders })
Preflight == [status |-> 200, headers |-> corsHeaders, body |-> [null |-> TRUE]]

\* the catch-all response with the Content-Type header alone
InternalServerErrorBare(details) ==
    [status |-> 500, headers |-> {"Content-Type"},
     body |-> [error |-> "Internal server error", details |-> details]]

\* catch (error): the 500 response of both functions
InternalServerError(details) ==
    JsonResponse(500, [error |-> "Internal server error", details |-> details])

\* const response = visionData.responses[0]
VisionResponse ==
    /\ pc = "idle"
    /\ pc' = "parsed"
    /\ \E r \in Responses \cup MalformedResponses \cup UnscoredResponses : response' = r
    /\ UNCHANGED <<foodLabels, extractedIngredients, ingredients, uniqueIngredients,
                   reply, client>>
    /\ UNCHANGED outsidePipeline

\* the filter callback reaches isFoodRelated(undefined), whose
\* label.toLowerCase() raises a TypeError
LabelsThrow(resp) ==
    /\ "labelAnnotations" \in DOMAIN resp
    /\ \E i \in 1..Len(resp.labelAnnotations) :
          /\ \E number \in ScoreNumber(resp.labelAnnotations[i]) : number > ScoreThreshold
          /\ "description" \notin DOMAIN resp.labelAnnotations[i]

\* the text step with the test of textAnnotations[0] left out
TextThrowsWhenEmpty(resp) ==
    /\ "textAnnotations" \in DOMAIN resp
    /\ \/ Len(resp.textAnnotations) = 0
       \/ "description" \notin DOMAIN resp.textAnnotations[1]

\* response.textAnnotations[0].description.toLowerCase() raises a TypeError
TextThrows(resp) ==
    /\ "textAnnotations" \in DOMAIN resp
    /\ Len(resp.textAnnotations) > 0
    /\ "description" \notin DOMAIN resp.textAnnotations[1]

\* the synchronous extraction, from `const ingredients = []` to
\* uniqueIngredients; a TypeError raised on the way leaves for the catch block
ExtractIngredients ==
    /\ pc = "parsed"
    /\ IF LabelsThrow(response)
       THEN /\ pc' = "failed"
            /\ UNCHANGED <<foodLabels, extractedIngredients, ingredients, uniqueIngredients>>
       ELSE IF TextThrows(response)
       THEN /\ pc' = "failed"
            /\ foodLabels' = FoodLabelsOf(response)
            /\ ingredients' = foodLabels'
            /\ UNCHANGED <<extractedIngredients, uniqueIngredients>>
       ELSE /\ pc' = "done"
            /\ foodLabels' = FoodLabelsOf(response)
            /\ extractedIngredients' = ExtractedOf(response)
            /\ ingredients' = Candidates(foodLabels', extractedIngredients')
            /\ uniqueIngredients' = UniqueOf(ingredients')
    /\ UNCHANGED <<response, reply, client>>
    /\ UNCHANGED outsidePipeline

\* return new Response({ingredients: uniqueIngredients, success: true})
Respond ==
    /\ pc = "done"
    /\ pc' = "replied"
    /\ reply' = JsonResponse(200, [ingredients |-> uniqueIngredients, success |-> TRUE])
    /\ UNCHANGED <<response, foodLabels, extractedIngredients, ingredients,
                   uniqueIngredients, client>>
    /\ UNCHANGED outsidePipeline

\* catch (error): the 500 response
RespondError ==
    /\ pc = "failed"
    /\ pc' = "replied"
    /\ reply' = InternalServerError(
                     "Cannot read properties of undefined (reading 'toLowerCase')")
    /\ UNCHANGED <<response, foodLabels, extractedIngredients, ingredients,
                   uniqueIngredients, client>>
    /\ UNCHANGED outsidePipeline

\* the client check with an empty list taken for an invalid response
AcceptsNonEmpty(data) ==
    "ingredients" \in DOMAIN data /\ Len(data.ingredients) > 0

\* !(!data || !data.ingredients): an array, empty or not, is truthy
Accepts(data) == "ingredients" \in DOMAIN data

\* AIService.analyzeImage, from the fetch result to its return or throw
ClientReceive ==
    /\ pc = "replied"
    /\ pc' = "settled"
    /\ client' = IF ~(reply.status >= 200 /\ reply.status <= 299)
                 THEN [kind |-> "rejected", message |-> "Image analysis service error"]
                 ELSE IF ~Accepts(reply.body)
                 THEN [kind |-> "rejected",
                       message |-> "Invalid response from image analysis service"]
                 ELSE [kind |-> "resolved", value |-> reply.body.ingredients]
    /\ UNCHANGED <<response, foodLabels, extractedIngredients, ingredients,
                   uniqueIngredients, reply>>
    /\ UNCHANGED outsidePipeline

\* the call is over: its locals, its Response and its promise are dropped
CallOver ==
    /\ pc = "settled"
    /\ pc' = "idle"
    /\ response' = NoResponse
    /\ foodLabels' = <<>>
    /\ extractedIngredients' = <<>>
    /\ ingredients' = <<>>
    /\ uniqueIngredients' = <<>>
    /\ reply' = NoReply
    /\ client' = Pending
    /\ UNCHANGED outsidePipeline

Calls == 1..MaxCalls

IdleCall == [pc |-> "idle", response |-> NoResponse, ingredients |-> <<>>,
             uniqueIngredients |-> <<>>]

\* an object literal without properties
NoFields == [name \in {} |-> {}]

RateKeys == {"image_analysis", "auth_attempt"}

\* no invocation, no direct call, no request is under way; the browser has
\* made no checkRateLimit call
Init ==
    /\ pc = "idle"
    /\ response = NoResponse
    /\ foodLabels = <<>>
    /\ extractedIngredients = <<>>
    /\ ingredients = <<>>
    /\ uniqueIngredients = <<>>
    /\ reply = NoReply
    /\ client = Pending
    /\ raw = ""
    /\ once = ""
    /\ twice = ""
    /\ npc = "start"
    /\ calls = [c \in Calls |-> IdleCall]
    /\ returned = {}
    /\ localStorage = <<>>
    /\ window = 0
    /\ admitted = [k \in RateKeys |-> 0]
    /\ allowed = [key |-> "", result |-> FALSE]
    /\ fn = ""
    /\ hpc = "idle"
    /\ request = [none |-> TRUE]
    /\ env = NoFields
    /\ upstream = [none |-> TRUE]
    /\ sent = NoReply
    /\ fetched = FALSE
    /\ labelArg = ""
    /\ related = FALSE
    /\ shouted = FALSE
    /\ cpc = "start"
    /\ textArg = ""
    /\ found = <<>>
    /\ mpc = "start"
    /\ isSignUp = FALSE
    /\ password = ""
    /\ passwordStrength = [isValid |-> FALSE, message |-> ""]
    /\ loading = FALSE
    /\ submitted = [none |-> TRUE]
    /\ appIngredients = <<>>
    /\ inputError = ""
    /\ clock = 0
    /\ isAnalyzing = FALSE
    /\ analysisError = ""
    /\ analysis = [none |-> TRUE]
    /\ batches = 0
    /\ isGenerating = FALSE
    /\ generation = "idle"
    /\ appRecipes = <<>>
    /\ showAuthModal = FALSE
    /\ favoriteRecipes = <<>>
    /\ toggling = {}
    /\ toggled = 0
    /\ favorite_recipes = {}
    /\ lastOperation = [recipe \in {"recipe-1-0", "recipe-1-1"} |-> "none"]

Next ==
    \/ VisionResponse
    \/ ExtractIngredients
    \/ Respond
    \/ RespondError
    \/ ClientReceive
    \/ CallOver

Spec == Init /\ [][Next]_vars

(***************************************************************************)
(* Direct calls of normalizeIngredient, applied once and then again.       *)
(***************************************************************************)
NormalizeOnce ==
    /\ npc = "start"
    /\ npc' = "once"
    /\ \E r \in RawStrings :
          /\ raw' = r
          /\ once' = normalizeIngredient(r)
    /\ UNCHANGED twice
    /\ UNCHANGED outsideNormalize

NormalizeTwice ==
    /\ npc = "once"
    /\ npc' = "twice"
    /\ twice' = normalizeIngredient(once)
    /\ UNCHANGED <<raw, once>>
    /\ UNCHANGED outsideNormalize

NormalizeNext ==
    \/ NormalizeOnce
    \/ NormalizeTwice

SpecNormalize == Init /\ [][NormalizeNext]_vars

(***************************************************************************)
(* Concurrent invocations of the function.  Each invocation owns its       *)
(* locals; the lexicons and the patterns are built inside the call.        *)
(***************************************************************************)
\* responses the concurrent invocations are run on; some differ as values
\* but hold equal labels and equal text
ReentrantResponses == {
    [labelAnnotations |-> <<Label("Vegetable", 80)>>,
     textAnnotations |-> <<[description |-> ShoppingText]>>],
    [labelAnnotations |-> <<Label("Garlic", 90)>>],
    [labelAnnotations |-> <<Label("Garlic", 90)>>, textAnnotations |-> <<>>],
    [textAnnotations |-> <<[description |-> ShoppingText]>>],
    [labelAnnotations |-> <<>>, textAnnotations |-> <<[description |-> ShoppingText]>>] }

\* the labels and the OCR text an invocation is given
LabelsGiven(resp) ==
    IF "labelAnnotations" \in DOMAIN resp THEN resp.labelAnnotations ELSE <<>>

TextGiven(resp) ==
    IF "textAnnotations" \in DOMAIN resp /\ Len(resp.textAnnotations) > 0
    THEN resp.textAnnotations[1].description
    ELSE ""

\* a candidate list declared outside the handler: an invocation goes on from
\* what the invocations under way have pushed
SharedList(c) ==
    LET others == {d \in Calls \ {c} : calls[d].ingredients # <<>>}
    IN  IF others = {} THEN <<>> ELSE calls[CHOOSE d \in others : TRUE].ingredients

\* const ingredients: string[] = []  -- a new list in every invocation
OwnList(c) == <<>>

\* const response = visionData.responses[0], in invocation c
CallReceives(c) ==
    /\ calls[c].pc = "idle"
    /\ \E r \in ReentrantResponses :
          calls' = [calls EXCEPT ![c] = [IdleCall EXCEPT !.pc = "parsed", !.response = r]]
    /\ UNCHANGED returned
    /\ UNCHANGED outsideReentrant

\* the extraction of invocation c
CallExtracts(c) ==
    /\ calls[c].pc = "parsed"
    /\ LET resp == calls[c].response
           list == OwnList(c) \o Candidates(FoodLabelsOf(resp), ExtractedOf(resp))
       IN  calls' = [calls EXCEPT ![c] = [pc |-> "done", response |-> resp,
                                          ingredients |-> list,
                                          uniqueIngredients |-> UniqueOf(list)]]
    /\ UNCHANGED returned
    /\ UNCHANGED outsideReentrant

\* invocation c returns its list; its locals are dropped
CallReturns(c) ==
    /\ calls[c].pc = "done"
    /\ returned' = returned \cup
          {<<LabelsGiven(calls[c].response), TextGiven(calls[c].response),
             calls[c].uniqueIngredients>>}
    /\ calls' = [calls EXCEPT ![c] = IdleCall]
    /\ UNCHANGED outsideReentrant

ReentrantNext ==
    \/ \E c \in Calls : CallReceives(c)
    \/ \E c \in Calls : CallExtracts(c)
    \/ \E c \in Calls : CallReturns(c)

SpecReentrant == Init /\ [][ReentrantNext]_vars

(***************************************************************************)
(* SecurityUtils.checkRateLimit over the browser's localStorage.           *)
(* localStorage is the list of its entries in the order of key(i); a new   *)
(* key may take any place in that order, a removal keeps the order of the  *)
(* entries that stay.  Both callers pass windowMs = 60000, so the window   *)
(* number is the minute of the clock.                                      *)
(***************************************************************************)
ImageLimit == 10

AuthLimit == 5

\* String.prototype.startsWith
StartsWith(s, prefix) == Len(s) >= Len(prefix) /\ SubSeq(s, 1, Len(prefix)) = prefix

\* maxRequests as passed by the caller that uses the key
MaxRequests(key) == IF key = "image_analysis" THEN ImageLimit ELSE AuthLimit

\* `rate_limit_${key}_${Math.floor(now / windowMs)}`
WindowKey(key, w) == "rate_limit_" \o key \o "_" \o ToString(w)

HasItem(store, key) == \E i \in 1..Len(store) : store[i].key = key

\* localStorage.getItem(key), for a key that is stored
GetItem(store, key) == store[CHOOSE i \in 1..Len(store) : store[i].key = key].value

\* the orders localStorage can have after setItem(key, value)
SetItem(store, key, value) ==
    IF HasItem(store, key)
    THEN {[i \in 1..Len(store) |->
              IF store[i].key = key THEN [key |-> key, value |-> value] ELSE store[i]]}
    ELSE {SubSeq(store, 1, at) \o <<[key |-> key, value |-> value]>>
              \o SubSeq(store, at + 1, Len(store)) : at \in 0..Len(store)}

RemoveAt(store, i) == SubSeq(store, 1, i - 1) \o SubSeq(store, i + 1, Len(store))

RECURSIVE CleanUp(_, _, _)
\* for (let i = 0; i < localStorage.length; i++): entry i (counted from 1
\* here) is removed when it is a rate limit entry other than windowKey, and
\* the index moves on in either case
CleanUp(store, i, windowKey) ==
    IF i > Len(store) THEN store
    ELSE IF StartsWith(store[i].key, "rate_limit_") /\ store[i].key # windowKey
         THEN CleanUp(RemoveAt(store, i), i + 1, windowKey)
         ELSE CleanUp(store, i + 1, windowKey)

\* SecurityUtils.checkRateLimit(key, MaxRequests(key), 60000), as a step of
\* its caller; its result is allowed'.result
checkRateLimit(key) ==
    /\ admitted[key] <= MaxRequests(key)
    /\ LET windowKey == WindowKey(key, window)
           count == IF HasItem(localStorage, windowKey)
                    THEN parseInt(GetItem(localStorage, windowKey))
                    ELSE 0
       IN  IF count >= MaxRequests(key)
           THEN /\ allowed' = [key |-> key, result |-> FALSE]
                /\ UNCHANGED <<localStorage, admitted>>
           ELSE /\ \E written \in SetItem(localStorage, windowKey, ToString(count + 1)) :
                      localStorage' = CleanUp(written, 1, windowKey)
                /\ allowed' = [key |-> key, result |-> TRUE]
                /\ admitted' = [admitted EXCEPT ![key] = @ + 1]
    /\ UNCHANGED window

\* a call of checkRateLimit on its own
CheckRateLimit(key) ==
    /\ checkRateLimit(key)
    /\ UNCHANGED outsideRate

\* the application stores an entry of its own (the session of the auth client)
StoreSession ==
    /\ ~HasItem(localStorage, "session")
    /\ \E written \in SetItem(localStorage, "session", "token") : localStorage' = written
    /\ UNCHANGED <<window, admitted, allowed>>
    /\ UNCHANGED outsideRate

\* the clock enters the next one-minute window
NextWindow ==
    /\ window < MaxWindow
    /\ window' = window + 1
    /\ admitted' = [k \in RateKeys |-> 0]
    /\ UNCHANGED <<localStorage, allowed>>
    /\ UNCHANGED outsideRate

RateNext ==
    \/ \E key \in RateKeys : CheckRateLimit(key)
    \/ StoreSession
    \/ NextWindow

SpecRateLimit == Init /\ [][RateNext]_vars

(***************************************************************************)
(* The two edge functions as HTTP handlers: analyze-image                  *)
(* (src/unnamed/part_003) and generate-recipes (src/unnamed/part_002).     *)
(* A JavaScript value is a record tagged with its type.  A body is held    *)
(* together with the value JSON.parse gives for it; a body without the     *)
(* json field does not parse.  Deno.env is a record of the variables set.  *)
(***************************************************************************)
\* the value is null or undefined: reading a property of it raises a TypeError
Nullish(x) == x.t \in {"undefined", "null"}

\* ToBoolean
Truthy(x) ==
    CASE Nullish(x) -> FALSE
      [] x.t = "string" -> x.v # ""
      [] x.t = "number" -> x.v # 0
      [] OTHER -> TRUE

\* x.name, for x that is not null or undefined
Prop(x, name) ==
    IF x.t = "object" /\ name \in DOMAIN x.v THEN x.v[name] ELSE Js("undefined", {})

\* Deno.env.get(name)
EnvGet(e, name) == IF name \in DOMAIN e THEN Js("string", e[name]) ELSE Js("undefined", {})

\* the checks have passed: the handler goes on to its upstream request
Proceed == [proceed |-> TRUE]

Methods == {"OPTIONS", "GET", "POST"}

RouterKey == "sk-or-v1-0123456789abcdef0123456789abcdef0123456789abcdef"

\* the environments the functions are deployed with
Envs == {
    NoFields,
    [GOOGLE_CLOUD_VISION |-> "AIzaSyExampleKey", OPEN_ROUTER_API_KEY |-> RouterKey],
    [GOOGLE_CLOUD_VISION |-> "", OPENROUTER_API_KEY |-> " \"" \o RouterKey \o "\"\n"],
    [GOOGLE_CLOUD_VISION |-> "AIzaSyExampleKey", OPEN_ROUTER_API_KEY |-> "",
     OPENROUTER_API_KEY |-> "'" \o RouterKey \o "'"],
    [GOOGLE_CLOUD_VISION |-> "AIzaSyExampleKey", OPEN_ROUTER_API_KEY |-> "sk-or-v1-short"] }

\* the requests analyze-image is sent
AnalyzeRequests ==
    {[method |-> m, body |-> b] : m \in Methods, b \in {
        [text |-> ""],
        [text |-> " \n"],
        [text |-> "{image"],
        [text |-> "null", json |-> Js("null", {})],
        [text |-> "{}", json |-> Js("object", NoFields)],
        [text |-> "{\"image\":\"\"}", json |-> Js("object", [image |-> Js("string", "")])],
        [text |-> "{\"image\":0}", json |-> Js("object", [image |-> Js("number", 0)])],
        [text |-> "{\"image\":7}", json |-> Js("object", [image |-> Js("number", 7)])],
        [text |-> "{\"image\":\"aGk=\",\"mimeType\":\"image/png\"}",
         json |-> Js("object", [image |-> Js("string", "aGk="), mimeType |-> Js("string", "image/png")])] }}

\* analyze-image from the arrival of the request to the fetch: the response it
\* returns, or Proceed
AnalyzeImageChecks(req, e) ==
    IF req.method = "OPTIONS" THEN Preflight
    ELSE IF req.method # "POST"
    THEN JsonResponse(405, [error |-> "Method not allowed"])
    ELSE IF req.body.text = "" \/ Trim(req.body.text) = ""
    THEN JsonResponse(400, [error |-> "Invalid JSON in request body",
                            details |-> "Empty request body"])
    ELSE IF "json" \notin DOMAIN req.body
    THEN JsonResponse(400, [error |-> "Invalid JSON in request body",
                            details |-> "Unexpected token"])
    ELSE IF Nullish(req.body.json)
    THEN InternalServerError("Cannot destructure property 'image'")
    ELSE LET image == Prop(req.body.json, "image")
         IN  IF ~Truthy(image)
             THEN JsonResponse(400, [error |-> "No image provided"])
             ELSE IF image.t # "string" \/ Len(image.v) = 0
             THEN JsonResponse(400, [error |-> "Invalid image data"])
             ELSE IF ~Truthy(EnvGet(e, "GOOGLE_CLOUD_VISION"))
             THEN JsonResponse(500,
                      [error |-> "Google Cloud Vision API key not configured",
                       details |-> "Please set GOOGLE_CLOUD_VISION environment variable"])
             ELSE Proceed

\* what the fetch of analyze-image ends with: a network error, an error
\* status, or a body, where visionData is null or an object that may hold
\* responses
VisionOutcomes ==
         {[kind |-> "network"]}
    \cup {[kind |-> "http", ok |-> FALSE, status |-> st] : st \in {400, 403}}
    \cup {[kind |-> "http", ok |-> TRUE, status |-> 200, body |-> b] : b \in
            {[text |-> ""], [text |-> "<html>"],
             [text |-> "null", json |-> Js("null", {})],
             [text |-> "{}", json |-> NoFields],
             [text |-> "{\"responses\":[]}", json |-> [responses |-> <<>>]],
             [text |-> "{\"responses\":[{\"error\":{}}]}",
              json |-> [responses |-> <<[error |-> NoFields]>>]],
             [text |-> "{\"responses\":[{\"error\":{\"message\":\"Quota exceeded\"}}]}",
              json |-> [responses |-> <<[error |-> [message |-> "Quota exceeded"]]>>]]}}
    \cup {[kind |-> "http", ok |-> TRUE, status |-> 200,
           body |-> [text |-> "{\"responses\":[...]}", json |-> [responses |-> <<r>>]]] :
             r \in ReentrantResponses \cup MalformedResponses \cup {EmptyResponse}}

\* analyze-image from the end of the fetch to the response it returns
AnalyzeImageAnswers(outcome) ==
    IF outcome.kind = "network"
    THEN JsonResponse(500, [error |-> "Network error calling Google Vision API"])
    ELSE IF ~outcome.ok
    THEN JsonResponse(500, [error |-> "Failed to analyze image with Google Vision API",
                            details |-> outcome.status])
    ELSE IF outcome.body.text = "" \/ Trim(outcome.body.text) = ""
            \/ "json" \notin DOMAIN outcome.body
    THEN JsonResponse(500, [error |-> "Invalid response from Google Vision API"])
    ELSE LET visionData == outcome.body.json
         IN  IF "t" \in DOMAIN visionData
             THEN InternalServerError("Cannot read properties of null (reading 'responses')")
             ELSE IF "responses" \notin DOMAIN visionData \/ Len(visionData.responses) = 0
             THEN JsonResponse(500, [error |-> "No response from Google Vision API"])
             ELSE LET resp == visionData.responses[1]
                  IN  IF "error" \in DOMAIN resp
                      THEN JsonResponse(500,
                               [error |-> "Google Vision API error",
                                details |-> IF "message" \in DOMAIN resp.error
                                            THEN resp.error.message
                                            ELSE "Unknown API error"])
                      ELSE IF LabelsThrow(resp) \/ TextThrows(resp)
                      THEN InternalServerError(
                               "Cannot read properties of undefined (reading 'toLowerCase')")
                      ELSE JsonResponse(200, [ingredients |-> AnalysisOf(resp),
                                              success |-> TRUE])

RECURSIVE Without(_, _)
\* .replace(/[...]/g, '') for a class of single characters
Without(s, class) ==
    IF Len(s) = 0 THEN ""
    ELSE IF Len(s) = 1 THEN (IF s \in class THEN "" ELSE s)
    ELSE LET half == Len(s) \div 2
         IN  Without(SubSeq(s, 1, half), class) \o Without(SubSeq(s, half + 1, Len(s)), class)

\* openRouterApiKey.trim().replace(/['"]/g, ''); the further replace of the
\* zero-width characters U+200B..U+200D and U+FEFF leaves every key of
\* Envs as it is, none of them holds such a character
CleanKey(key) == Without(Trim(key), {"'", "\""})

\* isValidKey
IsValidKey(key) ==
    Len(key) > 50 /\ (StartsWith(key, "sk-or-v1-") \/ StartsWith(key, "ssk-or-v1-"))

\* the requests generate-recipes is sent
RecipeRequests ==
    {[method |-> m, body |-> b] : m \in Methods, b \in {
        [text |-> "{ingredients"],
        [text |-> "null", json |-> Js("null", {})],
        [text |-> "{}", json |-> Js("object", NoFields)],
        [text |-> "{\"ingredients\":\"Tomato\"}",
         json |-> Js("object", [ingredients |-> Js("string", "Tomato")])],
        [text |-> "{\"ingredients\":[]}", json |-> Js("object", [ingredients |-> Js("array", <<>>)])],
        [text |-> "{\"ingredients\":[\"Tomato\",\"Basil\"]}",
         json |-> Js("object", [ingredients |-> Js("array", <<Js("string", "Tomato"), Js("string", "Basil")>>)])] }}

\* generate-recipes from the arrival of the request to the fetch: the
\* response it returns, or Proceed
GenerateRecipesChecks(req, e) ==
    IF req.method = "OPTIONS" THEN Preflight
    ELSE IF req.method # "POST"
    THEN JsonResponse(405, [error |-> "Method not allowed"])
    ELSE LET first == EnvGet(e, "OPEN_ROUTER_API_KEY")
             openRouterApiKey == IF Truthy(first) THEN first
                                 ELSE EnvGet(e, "OPENROUTER_API_KEY")
         IN  IF ~Truthy(openRouterApiKey)
             THEN JsonResponse(500, [error |-> "OpenRouter API key not configured",
                                     debug |-> [availableRouterKeys |->
                                                    {n \in DOMAIN e : Includes(toLowerCase(n), "router")},
                                                totalEnvVars |-> Cardinality(DOMAIN e)]])
             ELSE IF ~IsValidKey(CleanKey(openRouterApiKey.v))
             THEN JsonResponse(500, [error |-> "Invalid OpenRouter API key format",
                                     debug |-> [keyLength |-> Len(CleanKey(openRouterApiKey.v))]])
             ELSE IF "json" \notin DOMAIN req.body
             THEN InternalServerError("Unexpected token")
             ELSE IF Nullish(req.body.json)
             THEN InternalServerError("Cannot destructure property 'ingredients'")
             ELSE LET list == Prop(req.body.json, "ingredients")
                  IN  IF ~Truthy(list) \/ list.t # "array" \/ Len(list.v) = 0
                      THEN JsonResponse(400, [error |-> "No ingredients provided"])
                      ELSE Proceed

\* items of the array the language model answers with: a full recipe, a
\* recipe with missing and mistyped fields, null, a number
RecipeItems == {
    Js("object", [title |-> Js("string", "Tomato Soup"), description |-> Js("string", "Warm."),
              ingredients |-> Js("array", <<Js("string", "2 tomatoes")>>),
              instructions |-> Js("array", <<Js("string", "Boil.")>>),
              cooking_time |-> Js("number", 20), servings |-> Js("number", 2),
              difficulty |-> Js("string", "Easy")]),
    Js("object", [title |-> Js("string", ""), ingredients |-> Js("string", "tomatoes"),
              cooking_time |-> Js("string", "20"), difficulty |-> Js("string", "Expert")]),
    Js("null", {}),
    Js("number", 1) }

\* message contents: the text, the value of JSON.parse on its span from the
\* first [ to the last ] (parsedSpan, when it parses) and on the whole text
\* (parsedWhole, when it parses)
Contents ==
         {[text |-> "Sorry, I cannot help."],
          [text |-> "see [note] below"],
          [text |-> "{\"title\":\"Soup\"}", parsedWhole |-> Js("object", [title |-> Js("string", "Soup")])],
          [text |-> "7", parsedWhole |-> Js("number", 7)],
          [text |-> "[]", parsedSpan |-> Js("array", <<>>), parsedWhole |-> Js("array", <<>>)],
          [text |-> "{\"title\":\"Soup\",\"tags\":[\"a\"]}",
           parsedSpan |-> Js("array", <<Js("string", "a")>>),
           parsedWhole |-> Js("object", [title |-> Js("string", "Soup"),
                                         tags |-> Js("array", <<Js("string", "a")>>)])]}
    \cup {[text |-> "Here are the recipes: [...]", parsedSpan |-> Js("array", items)] :
             items \in SeqsUpTo(RecipeItems, MaxRecipes)}

\* what the fetch of generate-recipes ends with: a network error, an error
\* status, or a body, where responseData is null or an object that may hold
\* choices
RouterOutcomes ==
         {[kind |-> "network"]}
    \cup {[kind |-> "http", ok |-> FALSE, status |-> st] : st \in {401, 402, 429, 503}}
    \cup {[kind |-> "http", ok |-> TRUE, status |-> 200, body |-> b] : b \in
            {[text |-> "<html>"],
             [text |-> "null", json |-> Js("null", {})],
             [text |-> "{}", json |-> NoFields],
             [text |-> "{\"choices\":[]}", json |-> [choices |-> <<>>]],
             [text |-> "{\"choices\":[{}]}", json |-> [choices |-> <<NoFields>>]],
             [text |-> "{\"choices\":[{\"message\":{}}]}",
              json |-> [choices |-> <<[message |-> NoFields]>>]]}}
    \cup {[kind |-> "http", ok |-> TRUE, status |-> 200,
           body |-> [text |-> "{\"choices\":[{\"message\":{\"content\":...}}]}",
                     json |-> [choices |-> <<[message |-> [content |-> c]]>>]]] :
             c \in Contents}

\* content.match(/\[[\s\S]*\]/) finds a span
HasSpan(text) ==
    \E i, j \in 1..Len(text) :
        i < j /\ SubSeq(text, i, i) = "[" /\ SubSeq(text, j, j) = "]"

\* the status and texts of the pass-through of an upstream error
UpstreamError(status) ==
    CASE status = 401 -> [error |-> "OpenRouter API authentication failed", status |-> status]
      [] status = 429 -> [error |-> "OpenRouter API rate limit exceeded", status |-> status]
      [] status = 402 -> [error |-> "OpenRouter API payment required", status |-> status]
      [] OTHER -> [error |-> "Failed to generate recipes", status |-> status]

\* the callback of recipes.map, for a recipe that is not null
ValidatedRecipe(recipe, index, now) ==
    [id |-> "recipe-" \o ToString(now) \o "-" \o ToString(index),
     title |-> IF Truthy(Prop(recipe, "title")) THEN Prop(recipe, "title")
               ELSE Js("string", "Untitled Recipe"),
     description |-> IF Truthy(Prop(recipe, "description")) THEN Prop(recipe, "description")
                     ELSE Js("string", "A delicious recipe"),
     ingredients |-> IF Prop(recipe, "ingredients").t = "array"
                     THEN Prop(recipe, "ingredients") ELSE Js("array", <<>>),
     instructions |-> IF Prop(recipe, "instructions").t = "array"
                      THEN Prop(recipe, "instructions") ELSE Js("array", <<>>),
     cookingTime |-> IF Prop(recipe, "cooking_time").t = "number"
                     THEN Prop(recipe, "cooking_time") ELSE Js("number", 30),
     servings |-> IF Prop(recipe, "servings").t = "number"
                  THEN Prop(recipe, "servings") ELSE Js("number", 4),
     difficulty |-> IF InSeq(Prop(recipe, "difficulty"),
                             <<Js("string", "Easy"), Js("string", "Medium"), Js("string", "Hard")>>)
                    THEN Prop(recipe, "difficulty") ELSE Js("string", "Medium")]

\* generate-recipes from the parsed content to the response it returns
RecipesFrom(content, now) ==
    IF HasSpan(content.text) /\ "parsedSpan" \notin DOMAIN content
    THEN JsonResponse(500, [error |-> "Failed to parse recipe data"])
    ELSE IF ~HasSpan(content.text) /\ "parsedWhole" \notin DOMAIN content
    THEN JsonResponse(500, [error |-> "Failed to parse recipe data"])
    ELSE LET recipes == IF HasSpan(content.text) THEN content.parsedSpan
                        ELSE content.parsedWhole
         IN  IF recipes.t # "array"
             THEN JsonResponse(500, [error |-> "Invalid recipe format - expected array"])
             ELSE IF \E i \in 1..Len(recipes.v) : Nullish(recipes.v[i])
             THEN InternalServerError("Cannot read properties of null (reading 'title')")
             ELSE JsonResponse(200,
                      [recipes |-> [i \in 1..Len(recipes.v) |->
                                       ValidatedRecipe(recipes.v[i], i - 1, now)],
                       success |-> TRUE])

\* generate-recipes from the end of the fetch to the response it returns
GenerateRecipesAnswers(outcome, now) ==
    IF outcome.kind = "network" THEN InternalServerError("error sending request")
    ELSE IF ~outcome.ok
    THEN JsonResponse(outcome.status, UpstreamError(outcome.status))
    ELSE IF "json" \notin DOMAIN outcome.body THEN InternalServerError("Unexpected token")
    ELSE LET responseData == outcome.body.json
         IN  IF "t" \in DOMAIN responseData
             THEN InternalServerError("Cannot read properties of null (reading 'choices')")
             ELSE IF \/ "choices" \notin DOMAIN responseData
                     \/ Len(responseData.choices) = 0
                     \/ "message" \notin DOMAIN responseData.choices[1]
             THEN JsonResponse(500, [error |-> "Invalid response from AI service"])
             ELSE IF "content" \notin DOMAIN responseData.choices[1].message
             THEN JsonResponse(500, [error |-> "Failed to parse recipe data"])
             ELSE RecipesFrom(responseData.choices[1].message.content, now)

\* values of Date.now() while the recipes are mapped
Clock == {1000, 1001}

\* a request arrives at analyze-image and is served up to its fetch
AnalyzeImageReceives ==
    /\ hpc = "idle"
    /\ \E req \in AnalyzeRequests, e \in Envs :
          LET out == AnalyzeImageChecks(req, e)
          IN  /\ fn' = "analyze-image"
              /\ request' = req
              /\ env' = e
              /\ IF out = Proceed
                 THEN hpc' = "fetching" /\ fetched' = TRUE /\ sent' = NoReply
                 ELSE hpc' = "replied" /\ fetched' = FALSE /\ sent' = out
    /\ UNCHANGED upstream
    /\ UNCHANGED outsideHttp

\* the fetch of analyze-image settles and the function answers
AnalyzeImageFetched ==
    /\ hpc = "fetching"
    /\ fn = "analyze-image"
    /\ \E outcome \in VisionOutcomes :
          /\ upstream' = outcome
          /\ sent' = AnalyzeImageAnswers(outcome)
    /\ hpc' = "replied"
    /\ UNCHANGED <<fn, request, env, fetched>>
    /\ UNCHANGED outsideHttp

\* a request arrives at generate-recipes and is served up to its fetch
GenerateRecipesReceives ==
    /\ hpc = "idle"
    /\ \E req \in RecipeRequests, e \in Envs :
          LET out == GenerateRecipesChecks(req, e)
          IN  /\ fn' = "generate-recipes"
              /\ request' = req
              /\ env' = e
              /\ IF out = Proceed
                 THEN hpc' = "fetching" /\ fetched' = TRUE /\ sent' = NoReply
                 ELSE hpc' = "replied" /\ fetched' = FALSE /\ sent' = out
    /\ UNCHANGED upstream
    /\ UNCHANGED outsideHttp

\* the fetch of generate-recipes settles and the function answers
GenerateRecipesFetched ==
    /\ hpc = "fetching"
    /\ fn = "generate-recipes"
    /\ \E outcome \in RouterOutcomes, now \in Clock :
          /\ upstream' = outcome
          /\ sent' = GenerateRecipesAnswers(outcome, now)
    /\ hpc' = "replied"
    /\ UNCHANGED <<fn, request, env, fetched>>
    /\ UNCHANGED outsideHttp

\* the response has been sent; the function waits for the next request
RequestServed ==
    /\ hpc = "replied"
    /\ fn' = ""
    /\ hpc' = "idle"
    /\ request' = [none |-> TRUE]
    /\ env' = NoFields
    /\ upstream' = [none |-> TRUE]
    /\ sent' = NoReply
    /\ fetched' = FALSE
    /\ UNCHANGED outsideHttp

HttpNext ==
    \/ AnalyzeImageReceives
    \/ AnalyzeImageFetched
    \/ GenerateRecipesReceives
    \/ GenerateRecipesFetched
    \/ RequestServed

SpecHttp == Init /\ [][HttpNext]_vars

(***************************************************************************)
(* Direct calls of isFoodRelated, on a label and on the same label in      *)
(* capital letters.                                                        *)
(***************************************************************************)
\* the labels isFoodRelated is called on: every string of these
\* characters up to MaxLabelLen, and some labels of the image service
LabelArgs ==
         {Concat(chars) :
             chars \in SeqsUpTo({"o", "i", "l", "O", " ", "-"}, MaxLabelLen)}
    \cup {"Fresh Tomato", "Car", "Furniture", " Basil", "Bread.", "BERRIES"}

RECURSIVE toUpperCase(_)
\* String.prototype.toUpperCase
toUpperCase(s) ==
    IF Len(s) <= 1 THEN UpperChar(s)
    ELSE LET half == Len(s) \div 2
         IN  toUpperCase(SubSeq(s, 1, half)) \o toUpperCase(SubSeq(s, half + 1, Len(s)))

\* isFoodRelated(labelArg)
Classify ==
    /\ cpc = "start"
    /\ cpc' = "classified"
    /\ \E label \in LabelArgs :
          /\ labelArg' = label
          /\ related' = isFoodRelated(label)
    /\ UNCHANGED shouted
    /\ UNCHANGED outsideClassify

\* isFoodRelated(labelArg.toUpperCase())
ClassifyCapitals ==
    /\ cpc = "classified"
    /\ cpc' = "both"
    /\ shouted' = isFoodRelated(toUpperCase(labelArg))
    /\ UNCHANGED <<labelArg, related>>
    /\ UNCHANGED outsideClassify

ClassifyNext ==
    \/ Classify
    \/ ClassifyCapitals

SpecClassify == Init /\ [][ClassifyNext]_vars

(***************************************************************************)
(* Direct calls of extractIngredientsFromText.                             *)
(***************************************************************************)
RECURSIVE TextsOf(_)
\* the texts of n words with a separator between neighbours
TextsOf(n) ==
    LET TextWords == {"eggs", "eggplant", "peppers", "peppercorn", "Oil", "boiling",
                      "GARLICS", "olive", "Garlic, garlic"}
    IN  IF n = 0 THEN {""}
        ELSE IF n = 1 THEN TextWords
        ELSE {w \o sep \o rest :
                 w \in TextWords, sep \in {" ", "_"}, rest \in TextsOf(n - 1)}

\* the texts extractIngredientsFromText is called on
TextArgs == UNION {TextsOf(n) : n \in 0..MaxWords}

\* extractIngredientsFromText(textArg)
Mine ==
    /\ mpc = "start"
    /\ mpc' = "mined"
    /\ \E text \in TextArgs :
          /\ textArg' = text
          /\ found' = extractIngredientsFromText(text)
    /\ UNCHANGED outsideMine

SpecMine == Init /\ [][Mine]_vars

(***************************************************************************)
(* The AuthModal form (src/src/components/IngredientInput.tsx, from line   *)
(* 433).  The submit button is disabled while loading and, in sign-up      *)
(* mode, while passwordStrength.isValid is false; the password field is    *)
(* required and has minLength 8 in sign-up mode and 6 in sign-in mode, so  *)
(* the browser submits the form only when these hold.                      *)
(***************************************************************************)
\* validatePassword with the test for a digit left out
validatePasswordNoDigit(pw) ==
    LET has(class) == \E i \in 1..Len(pw) : CharAt(pw, i) \in class
    IN  IF Len(pw) < 8
        THEN [isValid |-> FALSE, message |-> "Password must be at least 8 characters long"]
        ELSE IF ~has(AZ)
        THEN [isValid |-> FALSE,
              message |-> "Password must contain at least one lowercase letter"]
        ELSE IF ~has({UpperChar(c) : c \in AZ})
        THEN [isValid |-> FALSE,
              message |-> "Password must contain at least one uppercase letter"]
        ELSE [isValid |-> TRUE, message |-> "Password is strong"]

\* SecurityUtils.validatePassword
validatePassword(pw) ==
    LET has(class) == \E i \in 1..Len(pw) : CharAt(pw, i) \in class
    IN  IF Len(pw) < 8
        THEN [isValid |-> FALSE, message |-> "Password must be at least 8 characters long"]
        ELSE IF ~has(AZ)
        THEN [isValid |-> FALSE,
              message |-> "Password must contain at least one lowercase letter"]
        ELSE IF ~has({UpperChar(c) : c \in AZ})
        THEN [isValid |-> FALSE,
              message |-> "Password must contain at least one uppercase letter"]
        ELSE IF ~has({ToString(n) : n \in 0..9})
        THEN [isValid |-> FALSE, message |-> "Password must contain at least one number"]
        ELSE [isValid |-> TRUE, message |-> "Password is strong"]

\* handlePasswordChange: the user edits the password field
HandlePasswordChange ==
    /\ \E newPassword \in {"", "Abcdefg1", "abcdefg1", "ABCDEFG1", "Abcdefgh", "Abc1"} :
          /\ password' = newPassword
          /\ passwordStrength' = IF isSignUp /\ newPassword # ""
                                 THEN validatePassword(newPassword)
                                 ELSE passwordStrength
    /\ UNCHANGED <<isSignUp, loading, submitted>>
    /\ UNCHANGED <<localStorage, window, admitted, allowed>>
    /\ UNCHANGED outsideAuth

\* the onClick of the button that switches between sign-in and sign-up
ToggleMode ==
    /\ isSignUp' = ~isSignUp
    /\ passwordStrength' = [isValid |-> FALSE, message |-> ""]
    /\ UNCHANGED <<password, loading, submitted>>
    /\ UNCHANGED <<localStorage, window, admitted, allowed>>
    /\ UNCHANGED outsideAuth

\* handleSubmit up to its await, for the email typed (validEmail is
\* SecurityUtils.isValidEmail of it)
HandleSubmit ==
    /\ ~loading
    /\ isSignUp => passwordStrength.isValid
    /\ Len(password) >= (IF isSignUp THEN 8 ELSE 6)
    /\ \E validEmail \in BOOLEAN :
          LET call(outcome) == [isSignUp |-> isSignUp, password |-> password,
                                gate |-> passwordStrength.isValid, outcome |-> outcome]
          IN  IF ~validEmail
              THEN /\ submitted' = call("invalid email")
                   /\ loading' = FALSE
                   /\ UNCHANGED <<localStorage, window, admitted, allowed>>
              ELSE IF isSignUp /\ ~passwordStrength.isValid
              THEN /\ submitted' = call("weak password")
                   /\ loading' = FALSE
                   /\ UNCHANGED <<localStorage, window, admitted, allowed>>
              ELSE /\ checkRateLimit("auth_attempt")
                   /\ IF ~allowed'.result
                      THEN submitted' = call("too many attempts") /\ loading' = FALSE
                      ELSE /\ submitted' = call(IF isSignUp THEN "signUp" ELSE "signIn")
                           /\ loading' = TRUE
    /\ UNCHANGED <<isSignUp, password, passwordStrength>>
    /\ UNCHANGED outsideAuth

\* signUp or signIn settles: with an error, by a throw, or with success,
\* which closes the modal and clears the form
AuthSettles ==
    /\ loading
    /\ loading' = FALSE
    /\ \E result \in {"error", "thrown", "ok"} :
          IF result = "ok"
          THEN /\ password' = ""
               /\ passwordStrength' = [isValid |-> FALSE, message |-> ""]
          ELSE UNCHANGED <<password, passwordStrength>>
    /\ UNCHANGED <<isSignUp, submitted>>
    /\ UNCHANGED <<localStorage, window, admitted, allowed>>
    /\ UNCHANGED outsideAuth

AuthNext ==
    \/ HandlePasswordChange
    \/ ToggleMode
    \/ HandleSubmit
    \/ AuthSettles

SpecAuth == Init /\ [][AuthNext]_vars

(***************************************************************************)
(* The ingredient list of the application (src/src/App.tsx and the         *)
(* IngredientInput component).  React hands every handler the state of the *)
(* render in which the handler was created: addIngredient, removeIngredient*)
(* and generateRecipes run to their end inside one event and see the       *)
(* current list; handleImageUpload awaits AIService.analyzeImage and then  *)
(* calls the onAnalyzeImage it received when the upload started, which is  *)
(* the handleImageAnalysis of that render, with that render's ingredients. *)
(* The upload buttons are unmounted while isAnalyzing is true and the      *)
(* generate button is disabled while isGenerating is true.  The text the   *)
(* user typed, the file chosen and the signed-in user (useAuth) are inputs *)
(* of each call.                                                           *)
(***************************************************************************)
\* the limit of addIngredient and of the n/20 counter
MaxListed == 20

\* the last value Date.now() returns to a successful addIngredient
MaxClock == 1

\* the uploads that may reach AIService.analyzeImage
MaxBatches == 2

\* the user removes tags only while the list is at most this long
MaxRemoveLen == 2

\* the names handed to addIngredient: the input field or a history button
TypedNames == {"", "basil", " Basil", "<Kale>", "ka|e"}

\* lists that analyze-image returns: normalized, pairwise distinct, at most
\* 15 of them; the second of the long lists holds "Basil"
DetectedLists ==
    {<<>>,
     NormalizeAll(SubSeq(commonIngredients, 1, MaxIngredients)),
     NormalizeAll(SubSeq(commonIngredients, MaxIngredients + 1, 2 * MaxIngredients))}

\* SecurityUtils.sanitizeInput
sanitizeInput(input) ==
    LET RECURSIVE StripAngles(_)
        StripAngles(s) ==
            IF s = "" THEN ""
            ELSE (IF Head(s) \in {"<", ">"} THEN "" ELSE CharAt(s, 1)) \o StripAngles(Tail(s))
        trimmed == Trim(StripAngles(input))
    IN  IF Len(trimmed) > 1000 THEN SubSeq(trimmed, 1, 1000) ELSE trimmed

\* SecurityUtils.validateIngredientName
validateIngredientName(name) ==
    LET valid == WordChars \cup WhiteSpace \cup {"-", "'", ".", ",", "(", ")", "&"}
    IN  /\ name # ""
        /\ \A i \in 1..Len(name) : CharAt(name, i) \in valid \ {"_"}
        /\ Len(name) <= 100

\* handleImageAnalysis with the filter against the existing names left out
handleImageAnalysisUnfiltered(existing, detectedIngredients, serial) ==
    existing \o [i \in 1..Len(detectedIngredients) |->
                    [id |-> "detected-" \o ToString(serial) \o "-" \o ToString(i),
                     name |-> detectedIngredients[i], detected |-> TRUE]]

\* handleImageAnalysis of the render whose ingredients are existing; serial
\* stands for the `${Date.now()}-${Math.random()}` of the call
handleImageAnalysis(existing, detectedIngredients, serial) ==
    LET newIngredients ==
            [i \in 1..Len(detectedIngredients) |->
                [id |-> "detected-" \o ToString(serial) \o "-" \o ToString(i),
                 name |-> detectedIngredients[i], detected |-> TRUE]]
        existingNames == [i \in 1..Len(existing) |-> toLowerCase(existing[i].name)]
        uniqueNewIngredients ==
            SelectSeq(newIngredients,
                      LAMBDA ing : ~InSeq(toLowerCase(ing.name), existingNames))
    IN  existing \o uniqueNewIngredients

\* addIngredient(name); Date.now() returns a later value in each call that
\* reaches it
addIngredient(name) ==
    /\ LET sanitizedName == sanitizeInput(name)
           lowered == toLowerCase(sanitizedName)
       IN  IF Trim(sanitizedName) = ""
           THEN /\ inputError' = "Please enter an ingredient name"
                /\ UNCHANGED <<appIngredients, clock>>
           ELSE IF ~validateIngredientName(sanitizedName)
           THEN /\ inputError' = "Invalid ingredient name"
                /\ UNCHANGED <<appIngredients, clock>>
           ELSE IF \E i \in 1..Len(appIngredients) :
                      toLowerCase(appIngredients[i].name) = lowered
           THEN /\ inputError' = "This ingredient is already added"
                /\ UNCHANGED <<appIngredients, clock>>
           ELSE IF Len(appIngredients) >= MaxListed
           THEN /\ inputError' = "Maximum 20 ingredients allowed"
                /\ UNCHANGED <<appIngredients, clock>>
           ELSE /\ clock < MaxClock
                /\ appIngredients' =
                       Append(appIngredients,
                              [id |-> "ingredient-" \o ToString(clock + 1),
                               name |-> Trim(sanitizedName), detected |-> FALSE])
                /\ inputError' = ""
                /\ clock' = clock + 1
    /\ UNCHANGED <<isAnalyzing, analysisError, analysis, batches>>
    /\ UNCHANGED <<isGenerating, generation, appRecipes, showAuthModal>>
    /\ UNCHANGED <<localStorage, window, admitted, allowed>>
    /\ UNCHANGED outsideApp

\* removeIngredient(id) from the remove button of a tag
RemoveIngredient ==
    /\ Len(appIngredients) <= MaxRemoveLen
    /\ \E i \in 1..Len(appIngredients) :
          appIngredients' =
                 SelectSeq(appIngredients, LAMBDA ing : ing.id # appIngredients[i].id)
    /\ UNCHANGED <<inputError, clock, isAnalyzing, analysisError, analysis, batches>>
    /\ UNCHANGED <<isGenerating, generation, appRecipes, showAuthModal>>
    /\ UNCHANGED <<localStorage, window, admitted, allowed>>
    /\ UNCHANGED outsideApp

\* handleImageUpload(file) up to its await
HandleImageUpload ==
    /\ ~isAnalyzing
    /\ \E file \in {"text/plain", "image/png over 3MB", "image/png"}, user \in BOOLEAN :
          IF ~StartsWith(file, "image/")
          THEN /\ analysisError' = "Please upload an image file"
               /\ UNCHANGED <<isAnalyzing, analysis, batches>>
               /\ UNCHANGED <<localStorage, window, admitted, allowed>>
          ELSE IF file = "image/png over 3MB"
          THEN /\ analysisError' = "Image file too large"
               /\ UNCHANGED <<isAnalyzing, analysis, batches>>
               /\ UNCHANGED <<localStorage, window, admitted, allowed>>
          ELSE IF ~user
          THEN /\ analysisError' = "Please sign in to use image analysis"
               /\ UNCHANGED <<isAnalyzing, analysis, batches>>
               /\ UNCHANGED <<localStorage, window, admitted, allowed>>
          ELSE /\ batches < MaxBatches
               /\ checkRateLimit("image_analysis")
               /\ IF ~allowed'.result
                  THEN /\ analysisError' = "Too many image analysis requests"
                       /\ UNCHANGED <<isAnalyzing, analysis, batches>>
                  ELSE /\ isAnalyzing' = TRUE
                       /\ analysisError' = ""
                       /\ analysis' = [ingredients |-> appIngredients]
                       /\ batches' = batches + 1
    /\ UNCHANGED <<appIngredients, inputError, clock>>
    /\ UNCHANGED <<isGenerating, generation, appRecipes, showAuthModal>>
    /\ UNCHANGED outsideApp

\* AIService.analyzeImage settles: handleImageUpload calls onAnalyzeImage
\* with the detected list, or stores the error; its finally block runs
AnalysisSettles ==
    /\ "ingredients" \in DOMAIN analysis
    /\ \/ \E detectedIngredients \in DetectedLists :
             /\ appIngredients' =
                    handleImageAnalysis(analysis.ingredients, detectedIngredients, batches)
             /\ UNCHANGED analysisError
       \/ /\ analysisError' = "Failed to analyze image"
          /\ UNCHANGED appIngredients
    /\ isAnalyzing' = FALSE
    /\ analysis' = [none |-> TRUE]
    /\ UNCHANGED <<inputError, clock, batches>>
    /\ UNCHANGED <<isGenerating, generation, appRecipes, showAuthModal>>
    /\ UNCHANGED <<localStorage, window, admitted, allowed>>
    /\ UNCHANGED outsideApp

\* generateRecipes up to its first await
GenerateRecipes ==
    /\ ~isGenerating
    /\ \E user \in BOOLEAN :
          IF Len(appIngredients) = 0
          THEN UNCHANGED <<isGenerating, generation, showAuthModal>>
          ELSE IF ~user
          THEN showAuthModal' = TRUE /\ UNCHANGED <<isGenerating, generation>>
          ELSE /\ isGenerating' = TRUE
               /\ generation' = "saveIngredientHistory"
               /\ UNCHANGED showAuthModal
    /\ UNCHANGED appRecipes
    /\ UNCHANGED <<appIngredients, inputError, clock, isAnalyzing, analysisError, analysis, batches>>
    /\ UNCHANGED <<localStorage, window, admitted, allowed>>
    /\ UNCHANGED outsideApp

\* generateRecipes after its awaits, with the finally block left out
GenerationSettlesWithoutFinally ==
    /\ generation # "idle"
    /\ \E fulfilled \in BOOLEAN :
          IF fulfilled /\ generation = "saveIngredientHistory"
          THEN /\ generation' = "generateRecipes"
               /\ UNCHANGED <<isGenerating, appRecipes>>
          ELSE /\ generation' = "idle"
               /\ isGenerating' = (isGenerating /\ ~fulfilled)
               /\ appRecipes' = IF fulfilled THEN <<"recipe-1-0">> ELSE appRecipes
    /\ UNCHANGED showAuthModal
    /\ UNCHANGED <<appIngredients, inputError, clock, isAnalyzing, analysisError, analysis, batches>>
    /\ UNCHANGED <<localStorage, window, admitted, allowed>>
    /\ UNCHANGED outsideApp

\* the promise generateRecipes awaits settles: saveIngredientHistory, then
\* AIService.generateRecipes; a rejection goes to the catch block, and the
\* finally block runs when the function ends
GenerationSettles ==
    /\ generation # "idle"
    /\ \E fulfilled \in BOOLEAN :
          IF fulfilled /\ generation = "saveIngredientHistory"
          THEN /\ generation' = "generateRecipes"
               /\ UNCHANGED <<isGenerating, appRecipes>>
          ELSE /\ generation' = "idle"
               /\ isGenerating' = FALSE
               /\ appRecipes' = IF fulfilled THEN <<"recipe-1-0">> ELSE appRecipes
    /\ UNCHANGED showAuthModal
    /\ UNCHANGED <<appIngredients, inputError, clock, isAnalyzing, analysisError, analysis, batches>>
    /\ UNCHANGED <<localStorage, window, admitted, allowed>>
    /\ UNCHANGED outsideApp

\* the user edits the list while images are analysed
AppNext ==
    \/ \E name \in TypedNames : addIngredient(name)
    \/ RemoveIngredient
    \/ HandleImageUpload
    \/ AnalysisSettles

SpecApp == Init /\ [][AppNext]_vars

\* uploads and recipe generations; another tab of the application shares
\* localStorage and has its own uploads admitted
BusyNext ==
    \/ HandleImageUpload
    \/ AnalysisSettles
    \/ GenerateRecipes
    \/ GenerationSettles
    \/ CheckRateLimit("image_analysis")

SpecBusy == Init /\ [][BusyNext]_vars

\* every request the browser sends settles
FairSpecBusy == SpecBusy /\ WF_vars(AnalysisSettles) /\ WF_vars(GenerationSettles)

(***************************************************************************)
(* The favorites of the application (toggleFavorite, src/src/App.tsx lines *)
(* 87-107).  A call reads the favoriteRecipes of the render in which the   *)
(* heart button was clicked, awaits UserService.saveFavoriteRecipe or      *)
(* removeFavoriteRecipe, and then sets the state from the list it read.    *)
(* The button stays enabled, so several calls can be waiting at once.  A   *)
(* recipe is given by its id; the server carries out the request at the    *)
(* moment the promise settles.                                             *)
(***************************************************************************)
\* the toggleFavorite calls the user makes
MaxToggles == 3

\* toggleFavorite(recipe) up to its await
ToggleFavorite ==
    /\ toggled < MaxToggles
    /\ \E recipe \in {"recipe-1-0", "recipe-1-1"}, user \in BOOLEAN :
          IF ~user
          THEN /\ showAuthModal' = TRUE
               /\ UNCHANGED <<toggling, toggled>>
          ELSE /\ toggling' = toggling \cup
                      {[call |-> toggled + 1, recipe |-> recipe,
                        favoriteRecipes |-> favoriteRecipes,
                        isFavorited |-> InSeq(recipe, favoriteRecipes)]}
               /\ toggled' = toggled + 1
               /\ UNCHANGED showAuthModal
    /\ UNCHANGED <<favoriteRecipes, favorite_recipes, lastOperation>>
    /\ UNCHANGED outsideFavorites

\* the request of a waiting call settles: the upsert or the delete is done
\* and the call sets favoriteRecipes, or the request fails and the catch
\* block runs
ToggleSettles ==
    /\ \E waiting \in toggling, fulfilled \in BOOLEAN :
          /\ toggling' = toggling \ {waiting}
          /\ IF ~fulfilled
             THEN UNCHANGED <<favoriteRecipes, favorite_recipes, lastOperation>>
             ELSE IF waiting.isFavorited
             THEN /\ favorite_recipes' = favorite_recipes \ {waiting.recipe}
                  /\ favoriteRecipes' =
                         SelectSeq(waiting.favoriteRecipes, LAMBDA fav : fav # waiting.recipe)
                  /\ lastOperation' = [lastOperation EXCEPT ![waiting.recipe] = "remove"]
             ELSE /\ favorite_recipes' = favorite_recipes \cup {waiting.recipe}
                  /\ favoriteRecipes' = Append(waiting.favoriteRecipes, waiting.recipe)
                  /\ lastOperation' = [lastOperation EXCEPT ![waiting.recipe] = "save"]
    /\ UNCHANGED <<toggled, showAuthModal>>
    /\ UNCHANGED outsideFavorites

FavoritesNext ==
    \/ ToggleFavorite
    \/ ToggleSettles

SpecFavorites == Init /\ [][FavoritesNext]_vars

(***************************************************************************)
(* Properties of the returned ingredient list.                             *)
(***************************************************************************)
\* a sequence given by a rule, with its entries computed once
Listed(s) == s \o <<>>

\* the label annotations of the response in hand, none when absent
SuppliedLabels ==
    IF "labelAnnotations" \in DOMAIN response THEN response.labelAnnotations ELSE <<>>

\* the description of a supplied label, empty for a label that has none
DescriptionOf(label) ==
    IF "description" \in DOMAIN label THEN label.description ELSE ""

\* the response in hand carries a first text annotation
HasText ==
    "textAnnotations" \in DOMAIN response /\ Len(response.textAnnotations) > 0

\* the candidates that are longer than two characters
LongCandidates == {ingredients[i] : i \in {j \in 1..Len(ingredients) : Len(ingredients[j]) > 2}}

\* C1: the returned ingredient list has at most 15 entries, whatever the
\* labels and the OCR text of the image-service response.
C1_AtMostFifteen == Len(uniqueIngredients) <= 15

\* more than 15 distinct candidates survive the filter and 15 are returned
C1_Witness ==
    /\ pc = "done"
    /\ Cardinality(LongCandidates) > 15
    /\ Len(uniqueIngredients) = 15

\* C2: the returned ingredient list never contains the same string twice.
C2_NoDuplicates ==
    \A i, j \in 1..Len(uniqueIngredients) :
        i # j => uniqueIngredients[i] # uniqueIngredients[j]

\* a label and a mined term normalize to the same string, which is returned
C2_Witness ==
    /\ pc = "done"
    /\ \E i \in 1..Len(foodLabels), j \in 1..Len(extractedIngredients) :
          /\ foodLabels[i] = normalizeIngredient(extractedIngredients[j])
          /\ InSeq(foodLabels[i], uniqueIngredients)

\* C3: no entry of the returned list is empty, whitespace-only, or of
\* length 2 or less.
C3_NoShortEntries ==
    \A i \in 1..Len(uniqueIngredients) :
        LET e == uniqueIngredients[i]
        IN  /\ Len(e) > 2
            /\ \E k \in 1..Len(e) : CharAt(e, k) \notin WhiteSpace

\* the candidates held "A" and the empty string, and something was returned
C3_Witness ==
    /\ pc = "done"
    /\ InSeq("A", ingredients)
    /\ InSeq("", ingredients)
    /\ uniqueIngredients # <<>>

\* the response with every label of score <= 0.5 removed
WithoutLowScores(resp) ==
    IF "labelAnnotations" \in DOMAIN resp
    THEN [resp EXCEPT !.labelAnnotations =
                 SelectSeq(resp.labelAnnotations,
                           LAMBDA label : "score" \notin DOMAIN label \/ label.score > 50)]
    ELSE resp

\* C4: a label with score <= 0.5 contributes nothing: removing every such
\* label from the input leaves the returned list unchanged, and an input made
\* only of such labels, with no OCR text, returns the empty list.
C4_LowScoreContributesNothing ==
    pc = "done" =>
        /\ uniqueIngredients = AnalysisOf(WithoutLowScores(response))
        /\ ( /\ ~HasText
             /\ \A i \in 1..Len(SuppliedLabels) :
                   "score" \in DOMAIN SuppliedLabels[i] /\ SuppliedLabels[i].score <= 50 )
           => uniqueIngredients = <<>>

\* a food label at the cutoff sits among labels that are returned, and is not
C4_Witness ==
    /\ pc = "done"
    /\ \E i \in 1..Len(SuppliedLabels) :
          /\ "score" \in DOMAIN SuppliedLabels[i]
          /\ SuppliedLabels[i].score <= 50
          /\ DescriptionOf(SuppliedLabels[i]) = "Tomato"
    /\ uniqueIngredients # <<>>
    /\ ~InSeq("Tomato", uniqueIngredients)

\* the relatedness condition in the words of the claim
C5_Related(description) ==
    LET lowered == toLowerCase(description)
    IN  \E n \in 1..Len(foodKeywords) :
            \/ \E a \in 0..(Len(lowered) - Len(foodKeywords[n])) :
                   SubSeq(lowered, a + 1, a + Len(foodKeywords[n])) = foodKeywords[n]
            \/ \E a \in 0..(Len(foodKeywords[n]) - Len(lowered)) :
                   SubSeq(foodKeywords[n], a + 1, a + Len(lowered)) = lowered

C5_Qualifies(label) ==
    "score" \in DOMAIN label /\ label.score > 50 /\ C5_Related(label.description)

\* C5 as stated: every label with score > 0.5 whose description is related to
\* a keyword is included in the returned list as its normalized form.
C5_Original ==
    pc = "done" =>
        \A i \in 1..Len(SuppliedLabels) :
            C5_Qualifies(SuppliedLabels[i])
                => InSeq(normalizeIngredient(DescriptionOf(SuppliedLabels[i])), uniqueIngredients)

\* C5 as amended: such a label is included as its normalized form when that
\* form is longer than 2 characters and fewer than 15 distinct normalized
\* forms longer than 2 characters come from qualifying labels supplied
\* before it.
C5_QualifyingLabelIncluded ==
    pc = "done" =>
        LET norms == Listed([i \in 1..Len(SuppliedLabels) |->
                       normalizeIngredient(DescriptionOf(SuppliedLabels[i]))])
            quals == Listed([i \in 1..Len(SuppliedLabels) |->
                       C5_Qualifies(SuppliedLabels[i])])
            earlier(i) == {norms[j] : j \in {k \in 1..(i - 1) : quals[k] /\ Len(norms[k]) > 2}}
        IN  \A i \in 1..Len(SuppliedLabels) :
                (quals[i] /\ Len(norms[i]) > 2 /\ Cardinality(earlier(i)) < 15)
                    => InSeq(norms[i], uniqueIngredients)

\* one qualifying label is returned, one that is a substring of a keyword
\* is returned, and one with a long enough normalized form is cut off
C5_Witness ==
    /\ pc = "done"
    /\ InSeq("Car", uniqueIngredients)
    /\ \E j \in 1..Len(SuppliedLabels) :
          /\ C5_Qualifies(SuppliedLabels[j])
          /\ Len(normalizeIngredient(DescriptionOf(SuppliedLabels[j]))) > 2
          /\ ~InSeq(normalizeIngredient(DescriptionOf(SuppliedLabels[j])), uniqueIngredients)

\* the input of the end-to-end scenario
C6_Input ==
    [labelAnnotations |-> <<Label("Vegetable", 80), Label("Car", 95)>>,
     textAnnotations |-> <<[description |-> RecipeText]>>]

\* C6: for labels [{Vegetable, 0.8}, {Car, 0.95}] and the OCR text "recipe
\* calls for 2 eggs and fresh basil leaves" the handler returns exactly
\* ["Vegetable", "Egg", "Basil"].
C6_EndToEnd ==
    (pc = "done" /\ response = C6_Input)
        => uniqueIngredients = <<"Vegetable", "Egg", "Basil">>

\* the candidates of the response in hand: normalized qualifying labels, then
\* normalized mined terms
C7_Concatenation ==
    foodLabels \o Listed([i \in 1..Len(extractedIngredients) |->
                       normalizeIngredient(extractedIngredients[i])])

\* the positions of a sequence that hold a first occurrence of a string
\* longer than 2 characters
C7_Kept(cat) ==
    {i \in 1..Len(cat) :
        /\ Len(cat[i]) > 2
        /\ \A j \in 1..(i - 1) : cat[j] # cat[i]}

\* C7: the output is exactly the first min(15, n) entries of the sequence
\* obtained by concatenating normalized qualifying labels and normalized
\* mined terms, removing later duplicates and entries of length <= 2.
C7_FirstFifteen ==
    pc = "done" =>
        LET cat == C7_Concatenation
            kept == C7_Kept(cat)
            n == Cardinality(kept)
            rank == [i \in kept |-> Cardinality({j \in kept : j < i})]
        IN  /\ Len(uniqueIngredients) = (IF n < 15 THEN n ELSE 15)
            /\ \A i \in kept :
                   rank[i] < 15 => uniqueIngredients[rank[i] + 1] = cat[i]

\* 30 distinct qualifying ingredients or more, of which 15 are returned,
\* the short entry that preceded them left out without taking a place
C7_Witness ==
    /\ pc = "done"
    /\ Cardinality(C7_Kept(C7_Concatenation)) >= 30
    /\ Len(uniqueIngredients) = 15
    /\ \E i \in 1..Len(foodLabels) : i <= 15 /\ Len(foodLabels[i]) <= 2

\* C8: every entry that came from a label precedes every entry that came
\* only from text mining; label-derived entries keep the order in which the
\* labels were supplied (first occurrence), text-mined entries keep
\* dictionary order; no sorting by confidence is applied.
C8_LabelsThenTextInOrder ==
    pc = "done" =>
        LET out == uniqueIngredients
            norms == Listed([i \in 1..Len(SuppliedLabels) |->
                       normalizeIngredient(DescriptionOf(SuppliedLabels[i]))])
            passes == Listed([i \in 1..Len(SuppliedLabels) |->
                       LabelPasses(SuppliedLabels[i])])
            minedNorms == Listed([k \in 1..Len(extractedIngredients) |->
                       normalizeIngredient(extractedIngredients[k])])
            position == Listed([k \in 1..Len(extractedIngredients) |->
                       CHOOSE n \in 1..Len(commonIngredients) : commonIngredients[n] = extractedIngredients[k]])
            \* the supplied labels an entry comes from
            from == Listed([m \in 1..Len(out) |->
                       {i \in 1..Len(SuppliedLabels) : passes[i] /\ norms[i] = out[m]}])
            \* the dictionary positions of the mined terms an entry comes from
            mined == Listed([m \in 1..Len(out) |->
                       {position[k] : k \in {x \in 1..Len(extractedIngredients) : minedNorms[x] = out[m]}}])
            first(S) == CHOOSE i \in S : \A k \in S : i <= k
        IN  /\ \A m \in 1..Len(out) : from[m] # {} \/ mined[m] # {}
            /\ \A i, j \in 1..Len(out) :
                   i < j =>
                       /\ from[j] # {} => from[i] # {}
                       /\ (from[i] # {} /\ from[j] # {})
                              => first(from[i]) < first(from[j])
                       /\ (from[i] = {} /\ from[j] = {})
                              => first(mined[i]) < first(mined[j])

\* two labels are returned in the order supplied although the second has the
\* higher score, followed by two mined terms in dictionary order
C8_Witness ==
    /\ pc = "done"
    /\ Len(SuppliedLabels) = 2
    /\ \A i \in 1..2 : "score" \in DOMAIN SuppliedLabels[i]
    /\ SuppliedLabels[1].score < SuppliedLabels[2].score
    /\ Len(uniqueIngredients) = 4
    /\ uniqueIngredients[1] = normalizeIngredient(DescriptionOf(SuppliedLabels[1]))
    /\ uniqueIngredients[2] = normalizeIngredient(DescriptionOf(SuppliedLabels[2]))
    /\ uniqueIngredients[3] = normalizeIngredient(extractedIngredients[1])
    /\ uniqueIngredients[4] = normalizeIngredient(extractedIngredients[2])

\* C9: normalizeIngredient is idempotent: applied to its own result it
\* returns that result.
C9_Idempotent == npc = "twice" => twice = once

\* an input with a tab, changed by the first application to a non-empty string
C9_Witness ==
    /\ npc = "twice"
    /\ \E k \in 1..Len(raw) : CharAt(raw, k) = "\t"
    /\ once # raw
    /\ once # ""

\* the singular of a dictionary entry: the entry without one trailing "s"
C10_Singular(t) ==
    IF CharAt(t, Len(t)) = "s" THEN SubSeq(t, 1, Len(t) - 1) ELSE t

\* the text holds w as a whole word
C10_Mentions(text, w) ==
    \E i \in 1..Len(text) :
        /\ BoundaryBefore(text, i)
        /\ MatchesAt(text, i, w)
        /\ BoundaryBefore(text, i + Len(w))

\* C10: the dictionary holds singular forms, and for every dictionary
\* ingredient a text containing it as a whole word, in the singular or with
\* one trailing "s", yields the singular term, normalized for the output.
C10_SingularTermMined ==
    (pc = "done" /\ HasText) =>
        \A n \in 1..Len(commonIngredients) :
            LET t == C10_Singular(commonIngredients[n])
                text == response.textAnnotations[1].description
            IN  (C10_Mentions(text, t) \/ C10_Mentions(text, t \o "s"))
                    => /\ InSeq(t, extractedIngredients)
                       /\ InSeq(normalizeIngredient(t), ingredients)

(***************************************************************************)
(* Outcomes of the call: the function's Response and the client's promise. *)
(***************************************************************************)

\* the response has the documented shape
C11_WellFormed(resp) ==
    /\ "labelAnnotations" \in DOMAIN resp =>
          \A i \in 1..Len(resp.labelAnnotations) :
              {"description", "score"} \subseteq DOMAIN resp.labelAnnotations[i]
    /\ ("textAnnotations" \in DOMAIN resp /\ Len(resp.textAnnotations) > 0) =>
          "description" \in DOMAIN resp.textAnnotations[1]

Answered == pc \in {"replied", "settled"}

SuccessReply == reply.status = 200 /\ "ingredients" \in DOMAIN reply.body

\* C11: on a response whose labelAnnotations is absent, empty or a list of
\* {description, score} and whose textAnnotations is absent, empty or starts
\* with {description}, the handler never leaves the extraction by an error and
\* answers with a success response that carries an ingredient list.
C11_TotalOnWellFormedInput ==
    (pc # "idle" /\ C11_WellFormed(response)) =>
        /\ pc # "failed"
        /\ Answered => SuccessReply

C11_Witness ==
    /\ pc = "replied"
    /\ response = EmptyResponse
    /\ SuccessReply
    /\ reply.body.ingredients = <<>>

\* C12: when the extraction of a well-formed response ends with nothing kept,
\* the function answers with a success response whose ingredients is the
\* empty list, and AIService.analyzeImage resolves with that empty list.
C12_EmptyIsNotAnError ==
    (Answered /\ C11_WellFormed(response) /\ uniqueIngredients = <<>>) =>
        /\ SuccessReply
        /\ reply.body.ingredients = <<>>
        /\ reply.body.success
        /\ pc = "settled" => client = [kind |-> "resolved", value |-> <<>>]

C12_Witness ==
    /\ pc = "settled"
    /\ "labelAnnotations" \in DOMAIN response
    /\ Len(response.labelAnnotations) > 0
    /\ C11_WellFormed(response)
    /\ uniqueIngredients = <<>>
    /\ client = [kind |-> "resolved", value |-> <<>>]

\* a label above the cutoff without a description, or a first text annotation
\* without a description
C13_Malformed(resp) ==
    \/ /\ "labelAnnotations" \in DOMAIN resp
       /\ \E i \in 1..Len(resp.labelAnnotations) :
             /\ "score" \in DOMAIN resp.labelAnnotations[i]
             /\ resp.labelAnnotations[i].score > 50
             /\ "description" \notin DOMAIN resp.labelAnnotations[i]
    \/ /\ "textAnnotations" \in DOMAIN resp
       /\ Len(resp.textAnnotations) > 0
       /\ "description" \notin DOMAIN resp.textAnnotations[1]

\* C13: when a label annotation with score > 0.5 has no description, or the
\* first text annotation has no description, the function still answers with
\* a success response carrying an ingredient list, not with an error response.
C13_MalformedDegrades ==
    (Answered /\ C13_Malformed(response)) => SuccessReply

\* C15: no two entries of the returned list are equal when letter case is
\* ignored.
C15_NoCaseOnlyDuplicates ==
    \A i, j \in 1..Len(uniqueIngredients) :
        i < j => toLowerCase(uniqueIngredients[i]) # toLowerCase(uniqueIngredients[j])

\* a label and a mined term that differ in letter case only end as one entry
C15_Witness ==
    /\ pc = "done"
    /\ \E i \in 1..Len(foodLabels), j \in 1..Len(extractedIngredients) :
          /\ foodLabels[i] # extractedIngredients[j]
          /\ toLowerCase(foodLabels[i]) = extractedIngredients[j]
          /\ \E k \in 1..Len(uniqueIngredients) :
                toLowerCase(uniqueIngredients[k]) = extractedIngredients[j]

C16_AtMostMaxRequestsPerWindow ==
    \A key \in RateKeys : admitted[key] <= MaxRequests(key)

\* C17: every response of analyze-image and of generate-recipes, on every
\* path, carries the three CORS headers.
C17_EveryResponseHasCors ==
    hpc = "replied" => corsHeaders \subseteq sent.headers

\* generate-recipes has passed an upstream error through with its status
C17_Witness ==
    /\ hpc = "replied"
    /\ fn = "generate-recipes"
    /\ fetched
    /\ sent.status = 429
    /\ corsHeaders \subseteq sent.headers

(***************************************************************************)
(* Properties of isFoodRelated and extractIngredientsFromText.             *)
(***************************************************************************)

\* keyword k is a substring of the lowercased label
C18_KeywordInLabel(k, lbl) ==
    \E a \in 0..(Len(lbl) - Len(k)) :
        \A j \in 1..Len(k) : LowerChar(CharAt(lbl, a + j)) = CharAt(k, j)

\* the lowercased label is a substring of keyword k
C18_LabelInKeyword(k, lbl) ==
    \E a \in 0..(Len(k) - Len(lbl)) :
        \A j \in 1..Len(lbl) : LowerChar(CharAt(lbl, j)) = CharAt(k, a + j)

C18_Expected(lbl) ==
    \E n \in 1..Len(foodKeywords) :
        C18_KeywordInLabel(foodKeywords[n], lbl) \/ C18_LabelInKeyword(foodKeywords[n], lbl)

\* C18: isFoodRelated(label) is true exactly when some keyword is a substring
\* of the lowercased label or the lowercased label is a substring of some
\* keyword, the label being taken as it is (not trimmed, punctuation kept);
\* the label in capital letters gets the same answer.
C18_SubstringEitherWay ==
    /\ cpc # "start" => related = C18_Expected(labelArg)
    /\ cpc = "both" => shouted = related

\* a label that only its trimmed form would relate to a keyword, and whose
\* capitals differ from it, is answered false both times
C18_Witness ==
    /\ cpc = "both"
    /\ labelArg # Trim(labelArg)
    /\ labelArg # toUpperCase(labelArg)
    /\ C18_Expected(Trim(labelArg))
    /\ ~related
    /\ ~shouted

\* position i of the text holds a letter, a digit or an underscore
C19_WordAt(txt, i) == i >= 1 /\ i <= Len(txt) /\ CharAt(txt, i) \in WordChars

\* the text holds t, or t followed by one "s", in any letter case, with a
\* word boundary on both sides
C19_Contains(txt, t) ==
    \E i \in 1..Len(txt) : \E n \in {Len(t), Len(t) + 1} :
        /\ i + n - 1 <= Len(txt)
        /\ toLowerCase(SubSeq(txt, i, i + n - 1)) =
               (IF n = Len(t) THEN toLowerCase(t) ELSE toLowerCase(t) \o "s")
        /\ C19_WordAt(txt, i - 1) # C19_WordAt(txt, i)
        /\ C19_WordAt(txt, i + n - 1) # C19_WordAt(txt, i + n)

\* C19: extractIngredientsFromText returns a dictionary term exactly when
\* the text contains the term, or the term followed by one "s", in any letter
\* case and with a word boundary on both sides; an occurrence inside a longer
\* word does not count.
C19_ReturnedIffContained ==
    mpc = "mined" =>
        \A n \in 1..Len(commonIngredients) :
            InSeq(commonIngredients[n], found) <=>
                C19_Contains(textArg, commonIngredients[n])

\* "GARLICS" gives garlic while "peppercorn" does not give pepper
C19_Witness ==
    /\ mpc = "mined"
    /\ Includes(textArg, "GARLICS")
    /\ InSeq("garlic", found)
    /\ Includes(textArg, "peppercorn")
    /\ ~InSeq("pepper", found)

C20_Position(t) == CHOOSE n \in 1..Len(commonIngredients) : commonIngredients[n] = t

\* C20: the result lists dictionary terms in dictionary order, wherever they
\* occur in the text, and each of them once, however often it occurs.
C20_DictionaryOrderOnce ==
    mpc = "mined" =>
        /\ \A i \in 1..Len(found) : InSeq(found[i], commonIngredients)
        /\ \A i, j \in 1..Len(found) :
               i < j => C20_Position(found[i]) < C20_Position(found[j])

\* garlic stands twice in the text, before oil, and is listed once, after oil
C20_Witness ==
    /\ mpc = "mined"
    /\ textArg = "Garlic, garlic Oil"
    /\ found = <<"oil", "garlic">>

\* the characters C21 allows in an output: a-z, A-Z and the space
C21_Allowed(ch) == ch \in AZ \/ LowerChar(ch) \in AZ \/ ch = " "

\* C21: the output of normalizeIngredient consists only of the letters a-z,
\* their uppercase forms at word starts, and the space character; every
\* other character (tabs and newlines included) is removed, and the output
\* has no leading or trailing space.
C21_OnlyLettersAndSpaces ==
    npc # "start" =>
        /\ \A i \in 1..Len(once) : C21_Allowed(CharAt(once, i))
        /\ \A i \in 1..Len(once) :
              CharAt(once, i) \notin AZ /\ LowerChar(CharAt(once, i)) \in AZ
                  => (i = 1 \/ CharAt(once, i - 1) = " ")
        /\ once # "" => CharAt(once, 1) # " " /\ CharAt(once, Len(once)) # " "

\* a label that C22 has discarded: its score is a number not above 0.5, or is
\* missing, or is not a number
C22_BelowOrUnscored(label) == "score" \in DOMAIN label => label.score <= 50

\* C22: the cutoff is applied before the classifier: a label with score <= 0.5,
\* or with a missing or non-numeric score, is discarded without its
\* description being read; a response made of such labels only, with no OCR
\* text, never fails on a description and yields no food label.
C22_CutoffBeforeClassifier ==
    ( /\ pc # "idle"
      /\ "textAnnotations" \notin DOMAIN response
      /\ \A i \in 1..Len(SuppliedLabels) : C22_BelowOrUnscored(SuppliedLabels[i]) )
    => pc # "failed" /\ foodLabels = <<>>

\* the strength rule in the words of C23
C23_Strong(pw) ==
    /\ Len(pw) >= 8
    /\ \E i \in 1..Len(pw) : CharAt(pw, i) \in AZ
    /\ \E i \in 1..Len(pw) : CharAt(pw, i) \notin AZ /\ LowerChar(CharAt(pw, i)) \in AZ
    /\ \E i \in 1..Len(pw) : \E n \in 0..9 : CharAt(pw, i) = ToString(n)

\* C23: in sign-up mode, whatever edits, toggles and submits came before, the
\* stored passwordStrength.isValid that gates a submit agrees with the
\* strength rule applied to the password submitted, and signUp is called only
\* with a password that satisfies the rule.
C23_SignUpOnlyWithStrongPassword ==
    ("outcome" \in DOMAIN submitted /\ submitted.isSignUp) =>
        /\ submitted.gate = C23_Strong(submitted.password)
        /\ submitted.outcome = "signUp" => C23_Strong(submitted.password)

\* signUp is under way with a strong password while the field has been
\* emptied, which leaves the stored strength as it was
C23_Witness ==
    /\ loading
    /\ submitted.outcome = "signUp"
    /\ submitted.password = "Abcdefg1"
    /\ password = ""
    /\ passwordStrength.isValid

\* the status C24 gives a request of analyze-image that fails a check, in the
\* order of the checks; 0 for a request that passes them all
C24_Status(req, e) ==
    LET json == req.body.json
    IN  IF req.method # "POST" THEN 405
        ELSE IF Trim(req.body.text) = "" \/ "json" \notin DOMAIN req.body THEN 400
        ELSE IF ~( /\ json.t = "object"
                   /\ "image" \in DOMAIN json.v
                   /\ json.v.image.t = "string"
                   /\ json.v.image.v # "" ) THEN 400
        ELSE IF "GOOGLE_CLOUD_VISION" \notin DOMAIN e \/ e.GOOGLE_CLOUD_VISION = "" THEN 500
        ELSE 0

\* C24: analyze-image sends its request to the image service only after the
\* checks have passed, in this order: method is POST (else 405), body is
\* non-empty valid JSON (else 400), image is a non-empty string (else 400),
\* API key is configured (else 500); a request that fails a check gets that
\* error response, no upstream call is made and no ingredients are returned.
\* Stated for the requests that are not a CORS preflight.
C24_ChecksBeforeUpstream ==
    (fn = "analyze-image" /\ hpc # "idle" /\ request.method # "OPTIONS") =>
        IF C24_Status(request, env) = 0
        THEN fetched
        ELSE /\ ~fetched
             /\ hpc = "replied"
             /\ sent.status = C24_Status(request, env)
             /\ "ingredients" \notin DOMAIN sent.body

(***************************************************************************)
(* Properties of the application's ingredient list.                        *)
(***************************************************************************)
\* the entries of a list, as a set
C25_Entries(list) == {list[i] : i \in 1..Len(list)}

\* C25: no manual edit is lost by a concurrent image analysis: when the
\* analysis settles, every entry the user added while it was in flight is
\* still in the list, and every entry the user removed while it was in flight
\* is still absent.
C25_NoEditLost ==
    [][(isAnalyzing /\ ~isAnalyzing') =>
          LET atUpload == C25_Entries(analysis.ingredients)
              atSettle == C25_Entries(appIngredients)
              merged == C25_Entries(appIngredients')
          IN  /\ (atSettle \ atUpload) \subseteq merged
              /\ (atUpload \ atSettle) \cap merged = {}]_vars

\* the names of the list in lower case
C26_Lowered ==
    Listed([i \in 1..Len(appIngredients) |-> toLowerCase(appIngredients[i].name)])

\* no two entries of the list have names that are equal ignoring letter case
C26_NoTwoAlike ==
    LET lowered == C26_Lowered
    IN  \A i, j \in 1..Len(lowered) : i # j => lowered[i] # lowered[j]

\* C26: after any sequence of addIngredient, removeIngredient and
\* handleImageAnalysis the list holds no two entries whose names are equal
\* ignoring letter case, and an addIngredient with a name already present
\* (equal to the name of an entry, ignoring letter case and surrounding white
\* space) is rejected with an error message and leaves the list unchanged.
C26_NoDuplicateNames ==
    /\ []C26_NoTwoAlike
    /\ [][Len(appIngredients') >= Len(appIngredients) /\ UNCHANGED <<isAnalyzing, batches>> =>
          LET lowered == C26_Lowered
          IN  \A name \in TypedNames :
                  (InSeq(toLowerCase(Trim(name)), lowered) /\ addIngredient(name)) =>
                      /\ appIngredients' = appIngredients
                      /\ inputError' = "This ingredient is already added"]_vars

\* the list holds the typed basil and a detected Oregano of an analysis that
\* also found Basil, and a second basil has just been refused
C26_Witness ==
    /\ inputError = "This ingredient is already added"
    /\ \E i, j \in 1..Len(appIngredients) :
          /\ appIngredients[i].name = "basil" /\ ~appIngredients[i].detected
          /\ appIngredients[j].name = "Oregano" /\ appIngredients[j].detected
    /\ \A i \in 1..Len(appIngredients) : appIngredients[i].name # "Basil"

\* C27: the ingredient list never exceeds 20 entries after any sequence of
\* addIngredient, removeIngredient and handleImageAnalysis.
C27_AtMostTwenty == Len(appIngredients) <= MaxListed

(***************************************************************************)
(* Properties of the favorites.                                            *)
(***************************************************************************)
\* no two entries of favoriteRecipes have the same recipe id
C28_NoTwoSameId ==
    \A i, j \in 1..Len(favoriteRecipes) : i # j => favoriteRecipes[i] # favoriteRecipes[j]

\* C28: for every interleaving of toggleFavorite calls the favoriteRecipes
\* list never holds two entries with the same recipe id, and once all calls
\* have settled it holds a recipe exactly when the last successful operation
\* on that recipe was a save rather than a removal.
C28_FavoritesFollowLastOperation ==
    /\ C28_NoTwoSameId
    /\ toggling = {} =>
          \A recipe \in DOMAIN lastOperation :
              InSeq(recipe, favoriteRecipes) <=> lastOperation[recipe] = "save"

(***************************************************************************)
(* Properties of the busy flags.                                           *)
(***************************************************************************)
\* the messages of the checks that end handleImageUpload before its request
C29_Rejections ==
    {"Please upload an image file", "Image file too large",
     "Please sign in to use image analysis", "Too many image analysis requests"}

\* C29: the busy flags are always released: a generation that set
\* isGenerating and an upload that set isAnalyzing set the flag back to false
\* once the request has settled, with success or with a failure, and a check
\* that rejects the operation before the request starts does not set the flag.
C29_BusyFlagsReleased ==
    /\ isGenerating ~> ~isGenerating
    /\ isAnalyzing ~> ~isAnalyzing
    /\ [](isGenerating <=> generation # "idle")
    /\ [](isAnalyzing <=> "ingredients" \in DOMAIN analysis)
    /\ [][/\ (analysisError' \in C29_Rejections /\ analysisError' # analysisError)
               => ~isAnalyzing'
          /\ (GenerateRecipes /\ (Len(appIngredients) = 0 \/ showAuthModal' # showAuthModal))
               => ~isGenerating']_vars

\* a generation has delivered recipes, an upload has been analysed and a later
\* upload has been turned away by the rate limit, and both flags are down
C29_Witness ==
    /\ ~isGenerating
    /\ appRecipes # <<>>
    /\ ~isAnalyzing
    /\ batches > 0
    /\ analysisError = "Too many image analysis requests"

(***************************************************************************)
(* Properties of the recipes generate-recipes returns.                     *)
(***************************************************************************)
\* the content of the language model's reply, when the fetch brought one
C30_Content ==
    IF /\ "body" \in DOMAIN upstream
       /\ "json" \in DOMAIN upstream.body
       /\ "choices" \in DOMAIN upstream.body.json
       /\ Len(upstream.body.json.choices) > 0
       /\ "message" \in DOMAIN upstream.body.json.choices[1]
       /\ "content" \in DOMAIN upstream.body.json.choices[1].message
    THEN {upstream.body.json.choices[1].message.content}
    ELSE {}

\* C30: every recipe of a success response of generate-recipes has a
\* difficulty among "Easy", "Medium" and "Hard", numbers as cookingTime and
\* servings, arrays as ingredients and instructions, and an id that no other
\* recipe of the response has; a reply of the language model that is not a
\* JSON array yields a 500 error response without recipes.
C30_RecipesConform ==
    (fn = "generate-recipes" /\ hpc = "replied" /\ fetched) =>
        /\ "recipes" \in DOMAIN sent.body =>
              LET recipes == sent.body.recipes
              IN  /\ sent.status = 200
                  /\ \A i \in 1..Len(recipes) :
                        /\ recipes[i].difficulty \in
                               {Js("string", "Easy"), Js("string", "Medium"), Js("string", "Hard")}
                        /\ recipes[i].cookingTime.t = "number"
                        /\ recipes[i].servings.t = "number"
                        /\ recipes[i].ingredients.t = "array"
                        /\ recipes[i].instructions.t = "array"
                  /\ \A i, j \in 1..Len(recipes) : i # j => recipes[i].id # recipes[j].id
        /\ \A content \in C30_Content :
              ("parsedWhole" \notin DOMAIN content \/ content.parsedWhole.t # "array") =>
                  /\ sent.status = 500
                  /\ "recipes" \notin DOMAIN sent.body

====
